---- MODULE Spec2Model ----
(***************************************************************************)
(* State-machine model of the caching and tool-execution layer:           *)
(*   python/helpers/tool_cache.py            (ToolCache)                   *)
(*   python/helpers/extension_cache.py       (ExtensionCache)              *)
(*   python/helpers/extract_tools.py         (class loading)               *)
(*   python/helpers/optimized_tool_execution.py (OptimizedToolExecutor)    *)
(*                                                                         *)
(* Time is time.time() in milliseconds.  The asyncio lock of a cache is    *)
(* never held across a real suspension (the coroutines awaited inside the  *)
(* critical section never yield), so every cache operation is one atomic   *)
(* step.                                                                   *)
(***************************************************************************)
EXTENDS Integers, Sequences, FiniteSets, TLC

VARIABLES
    now,          \* time.time(), in milliseconds
    cache,        \* cache[c]: the _cache dict of cache c, in insertion order
    stats,        \* stats[c]: the _stats counters of cache c
    max_size,     \* max_size[c]: the _max_size of cache c
    last,         \* observer: what the most recent cache operation did
    obs,          \* observer: per-key history of cache c
    paused,       \* agent.context.paused
    calls,        \* calls[i]: the frame of the i-th execute_tool coroutine
    metrics,      \* OptimizedToolExecutor._metrics
    intervention_throttle,  \* OptimizedToolExecutor._intervention_throttle
    extension_throttle,     \* OptimizedToolExecutor._extension_throttle
    inv,          \* observer: the most recent throttled invocation
    prev,         \* observer: per pair, the invocation before that
    held,         \* observer: held[i]: the flag is set since before call i began
    lock,         \* lock[c]: the coroutine holding the _lock of cache c
    procs,        \* procs[p]: the frame of coroutine p in a cache operation
    joined        \* observer: joined[p]: a Get for the same key missed while p's waited

cacheVars == <<cache, stats, max_size>>
cacheObs == <<last, obs>>
execVars == <<paused, calls, metrics, intervention_throttle, extension_throttle>>
execObs == <<inv, prev, held>>
lockVars == <<lock, procs, joined>>
vars == <<now, cache, stats, max_size, last, obs, paused, calls, metrics,
          intervention_throttle, extension_throttle, inv, prev, held, lock, procs,
          joined>>

----------------------------------------------------------------------------
(* Bounds of the exploration *)

MaxGets == 3
MaxTicks == 3
MaxScenarioGets == 4
MaxExecTicks == 2

(* Program constants *)

TtlSeconds == 300

None == "None"
Caches == {"tool", "ext"}
MaxSizes == {1, 2}
TickSteps == {150000}
CallIds == {1, 2}
ExecTickSteps == {50}
InterventionWindow == 100
ExtensionWindow == 50

Ttl == TtlSeconds * 1000

----------------------------------------------------------------------------
(* The file system the resolvers read.  A source file is missing (not in   *)
(* the domain), broken (import raises) or holds the listed subclasses of   *)
(* the base class, in inspect.getmembers order (sorted by name).           *)

ToolFiles ==
    [p \in {"python/tools/A.py", "python/tools/B.py",
            "agents/default/tools/A.py", "python/tools/broken.py",
            "agents/work/tools/B.py"} |->
        CASE p = "python/tools/A.py"         -> [ok |-> TRUE,  classes |-> <<"A">>, mtime |-> 0]
          [] p = "python/tools/B.py"         -> [ok |-> TRUE,  classes |-> <<"B", "BHelper">>, mtime |-> 0]
          [] p = "agents/default/tools/A.py" -> [ok |-> TRUE,  classes |-> <<"DefaultA">>, mtime |-> 0]
          [] p = "python/tools/broken.py"    -> [ok |-> FALSE, classes |-> <<>>, mtime |-> 0]
          [] p = "agents/work/tools/B.py"    -> [ok |-> FALSE, classes |-> <<>>, mtime |-> 0]]

(* An extension folder is missing or holds files in alphabetical order.    *)
ExtFolders ==
    [p \in {"python/extensions/tool_execute_before",
            "python/extensions/tool_execute_after",
            "agents/work/extensions/tool_execute_before",
            "agents/work/extensions/tool_execute_after",
            "python/extensions/empty_point",
            "python/extensions/broken_point"} |->
        CASE p = "python/extensions/tool_execute_before" ->
                <<[ok |-> TRUE, classes |-> <<"BeforeA">>, mtime |-> 0],
                  [ok |-> TRUE, classes |-> <<"BeforeB">>, mtime |-> 0]>>
          [] p = "python/extensions/tool_execute_after" ->
                <<[ok |-> TRUE, classes |-> <<"AfterA">>, mtime |-> 0]>>
          [] p = "agents/work/extensions/tool_execute_before" ->
                <<[ok |-> TRUE, classes |-> <<"WorkBefore">>, mtime |-> 0]>>
          [] p = "agents/work/extensions/tool_execute_after" ->
                <<[ok |-> FALSE, classes |-> <<>>, mtime |-> 0]>>
          [] p = "python/extensions/empty_point" -> <<>>
          [] p = "python/extensions/broken_point" ->
                <<[ok |-> FALSE, classes |-> <<>>, mtime |-> 0]>>]

(* The (profile, name) pairs the callers ask for. *)
ToolRequests ==
    { <<None, "A">>, <<None, "B">>, <<"work", "A">>, <<"default", "A">>,
      <<"work", "B">>, <<None, "ghost">>, <<None, "broken">> }

ExtRequests ==
    { <<None, "tool_execute_before">>, <<None, "tool_execute_after">>,
      <<"work", "tool_execute_before">>, <<"work", "tool_execute_after">>,
      <<None, "empty_point">>, <<None, "broken_point">>, <<None, "ghost_point">> }

Requests(c) == IF c = "tool" THEN ToolRequests ELSE ExtRequests

----------------------------------------------------------------------------
(* extract_tools.py *)

\* for cls in reversed(class_list): first subclass wins, one per file
LoadClassesFromFile(file) ==
    IF file \notin DOMAIN ToolFiles THEN <<>>
    ELSE LET f == ToolFiles[file] IN
         IF ~f.ok \/ f.classes = <<>> THEN <<>>
         ELSE <<f.classes[Len(f.classes)]>>

RECURSIVE FolderClasses(_)
FolderClasses(fs) ==
    IF fs = <<>> THEN <<>>
    ELSE LET f == Head(fs) IN
         (IF f.classes = <<>> THEN <<>> ELSE <<f.classes[Len(f.classes)]>>)
            \o FolderClasses(Tail(fs))

\* import_module raises on a broken file and the exception leaves the function
LoadClassesFromFolder(folder) ==
    LET fs == ExtFolders[folder] IN
    IF \E i \in 1..Len(fs) : ~fs[i].ok
       THEN [raised |-> TRUE, classes |-> <<>>]
       ELSE [raised |-> FALSE, classes |-> FolderClasses(fs)]

----------------------------------------------------------------------------
(* The cache classes *)

Truthy(s) == s # None /\ s # ""

CacheKey(profile, name) ==
    IF Truthy(profile) THEN profile \o ":" \o name ELSE "default:" \o name

CacheKeys(c) == { CacheKey(r[1], r[2]) : r \in Requests(c) }

ProfileToolPath(profile, name) == "agents/" \o profile \o "/tools/" \o name \o ".py"
DefaultToolPath(name) == "python/tools/" \o name \o ".py"
ProfileExtPath(profile, point) == "agents/" \o profile \o "/extensions/" \o point
DefaultExtPath(point) == "python/extensions/" \o point

\* mutant of LoadToolClass: the shared location is searched first
LoadToolClass_SharedFirst(name, profile) ==
    LET own == IF Truthy(profile)
                  THEN LoadClassesFromFile(ProfileToolPath(profile, name))
                  ELSE <<>>
        dflt == LoadClassesFromFile(DefaultToolPath(name))
    IN  IF dflt # <<>> THEN dflt[1]
        ELSE IF own # <<>> THEN own[1]
        ELSE None

LoadToolClass(name, profile) ==
    LET own == IF Truthy(profile)
                  THEN LoadClassesFromFile(ProfileToolPath(profile, name))
                  ELSE <<>>
        dflt == LoadClassesFromFile(DefaultToolPath(name))
    IN  IF own # <<>> THEN own[1]
        ELSE IF dflt # <<>> THEN dflt[1]
        ELSE None

LoadExtensions(point, profile) ==
    LET ownPath == ProfileExtPath(profile, point)
        own == IF Truthy(profile) /\ ownPath \in DOMAIN ExtFolders
                  THEN LoadClassesFromFolder(ownPath)
                  ELSE [raised |-> FALSE, classes |-> <<>>]
        dfltPath == DefaultExtPath(point)
    IN  IF ~own.raised /\ own.classes # <<>> THEN own.classes
        ELSE IF dfltPath \in DOMAIN ExtFolders
                THEN LET d == LoadClassesFromFolder(dfltPath) IN
                     IF d.raised THEN <<>> ELSE d.classes
                ELSE <<>>

\* the resolver of cache c, and the value its "if tool_class:" test accepts
Resolve(c, name, profile) ==
    IF c = "tool" THEN LoadToolClass(name, profile) ELSE LoadExtensions(name, profile)

NotFound(c) == IF c = "tool" THEN None ELSE <<>>

\* mutant of Found: every resolver result is taken as a class
Found_Always(c, v) == TRUE

Found(c, v) == v # NotFound(c)

\* file_path / folder_path and file_mtime / folder_mtime of a new entry
EntryPath(c, name, profile) ==
    IF c = "tool"
       THEN (IF Truthy(profile) THEN ProfileToolPath(profile, name) ELSE DefaultToolPath(name))
       ELSE (IF Truthy(profile) THEN ProfileExtPath(profile, name) ELSE DefaultExtPath(name))

RECURSIVE MaxMtime(_, _)
MaxMtime(fs, m) ==
    IF fs = <<>> THEN m
    ELSE MaxMtime(Tail(fs), IF Head(fs).mtime > m THEN Head(fs).mtime ELSE m)

EntryMtime(c, path, t) ==
    IF c = "tool"
       THEN (IF path \in DOMAIN ToolFiles THEN ToolFiles[path].mtime ELSE t)
       ELSE (IF path \in DOMAIN ExtFolders THEN MaxMtime(ExtFolders[path], 0) ELSE 0)

KeysOf(entries) == { entries[i].key : i \in 1..Len(entries) }

IndexOf(entries, key) == CHOOSE i \in 1..Len(entries) : entries[i].key = key

Without(entries, key) == SelectSeq(entries, LAMBDA e : e.key # key)

\* mutants of IsFresh: the comparison inverted; the boundary included
IsFresh_Inverted(entry, t) == t - entry.last_accessed > Ttl

IsFresh_Inclusive(entry, t) == t - entry.last_accessed <= Ttl

\* current_time - entry.last_accessed < self._ttl_seconds
IsFresh(entry, t) == t - entry.last_accessed < Ttl

\* mutant of IsSweepable: the boundary included
IsSweepable_Inclusive(entry, t) == t - entry.last_accessed >= Ttl

\* current_time - entry.last_accessed > self._ttl_seconds
IsSweepable(entry, t) == t - entry.last_accessed > Ttl

\* mutant of OldestKey: the entry inserted last is spared
OldestKey_SpareNewest(entries) ==
    LET n == IF Len(entries) > 1 THEN Len(entries) - 1 ELSE Len(entries)
        i == CHOOSE i \in 1..n :
                /\ \A j \in 1..n :
                      entries[i].last_accessed <= entries[j].last_accessed
                /\ \A j \in 1..(i - 1) :
                      entries[j].last_accessed > entries[i].last_accessed
    IN  entries[i].key

\* mutant of OldestKey: max instead of min
OldestKey_Newest(entries) ==
    LET i == CHOOSE i \in 1..Len(entries) :
                \A j \in 1..Len(entries) :
                   entries[i].last_accessed >= entries[j].last_accessed
    IN  entries[i].key

\* min(self._cache.keys(), key=...): the first key of minimal last_accessed
OldestKey(entries) ==
    LET i == CHOOSE i \in 1..Len(entries) :
                /\ \A j \in 1..Len(entries) :
                      entries[i].last_accessed <= entries[j].last_accessed
                /\ \A j \in 1..(i - 1) :
                      entries[j].last_accessed > entries[i].last_accessed
    IN  entries[i].key

\* mutant of IsFull: evict only once the cache is over its capacity
IsFull_Strict(entries, size) == Len(entries) > size

\* if len(self._cache) >= self._max_size
IsFull(entries, size) == Len(entries) >= size

NewEntry(c, key, cls, name, profile, t) ==
    [key |-> key, cls |-> cls, last_accessed |-> t, access_count |-> 1,
     path |-> EntryPath(c, name, profile),
     mtime |-> EntryMtime(c, EntryPath(c, name, profile), t)]

\* _add_to_cache: the entries and evictions counter afterwards, and the victim
AddToCache(c, entries, size, key, cls, name, profile, t) ==
    LET full == IsFull(entries, size)
        victim == IF full THEN OldestKey(entries) ELSE None
        kept == IF full THEN Without(entries, victim) ELSE entries
        entry == NewEntry(c, key, cls, name, profile, t)
    IN  [entries |-> IF key \in KeysOf(kept)
                        THEN [kept EXCEPT ![IndexOf(kept, key)] = entry]
                        ELSE Append(kept, entry),
         evicted |-> IF full THEN 1 ELSE 0,
         victim |-> victim]


\* mutant of Refresh: the access is not counted
Refresh_TimeOnly(entry, t) == [entry EXCEPT !.last_accessed = t]

\* mutant of Refresh: the timestamp is not renewed
Refresh_CountOnly(entry, t) == [entry EXCEPT !.access_count = @ + 1]

\* entry.last_accessed = current_time; entry.access_count += 1
Refresh(entry, t) ==
    [entry EXCEPT !.last_accessed = t, !.access_count = @ + 1]

\* "if cache_key in self._cache" and the TTL check
LookupFresh(entries, key, t) ==
    /\ key \in KeysOf(entries)
    /\ IsFresh(entries[IndexOf(entries, key)], t)

\* the hit branch: refresh the entry, count the hit, return the cached class
HitEffect(entries, st, key, t) ==
    LET i == IndexOf(entries, key) IN
    [entries |-> [entries EXCEPT ![i] = Refresh(entries[i], t)],
     stats |-> [st EXCEPT !.hits = @ + 1],
     ret |-> entries[i].cls,
     hit |-> TRUE, resolver |-> FALSE, victim |-> None]

\* mutant of DropStale: the eviction is counted but the entry is left in place
DropStale_Keep(entries, st, key) ==
    IF key \in KeysOf(entries)
       THEN [entries |-> entries, stats |-> [st EXCEPT !.evictions = @ + 1]]
       ELSE [entries |-> entries, stats |-> st]

\* "del self._cache[cache_key]; self._stats['evictions'] += 1" for a stale entry
DropStale(entries, st, key) ==
    IF key \in KeysOf(entries)
       THEN [entries |-> Without(entries, key), stats |-> [st EXCEPT !.evictions = @ + 1]]
       ELSE [entries |-> entries, stats |-> st]

\* mutant of MissEffect: a load that caches its class is not counted
MissEffect_LoadUncounted(c, entries, st, size, name, profile, t) ==
    LET key == CacheKey(profile, name)
        d == DropStale(entries, st, key)
        s2 == [d.stats EXCEPT !.misses = @ + 1]
        cls == Resolve(c, name, profile)
    IN  IF Found(c, cls)
        THEN LET a == AddToCache(c, d.entries, size, key, cls, name, profile, t) IN
             [entries |-> a.entries,
              stats |-> [s2 EXCEPT !.evictions = @ + a.evicted],
              ret |-> cls,
              hit |-> FALSE, resolver |-> TRUE,
              victim |-> a.victim]
        ELSE [entries |-> d.entries, stats |-> s2, ret |-> cls,
              hit |-> FALSE, resolver |-> TRUE, victim |-> None]

\* the miss branch: count the miss, load, cache a class that was found
MissEffect(c, entries, st, size, name, profile, t) ==
    LET key == CacheKey(profile, name)
        d == DropStale(entries, st, key)
        s2 == [d.stats EXCEPT !.misses = @ + 1]
        cls == Resolve(c, name, profile)
    IN  IF Found(c, cls)
        THEN LET a == AddToCache(c, d.entries, size, key, cls, name, profile, t) IN
             [entries |-> a.entries,
              stats |-> [s2 EXCEPT !.evictions = @ + a.evicted, !.loads = @ + 1],
              ret |-> cls,
              hit |-> FALSE, resolver |-> TRUE,
              victim |-> a.victim]
        ELSE [entries |-> d.entries, stats |-> s2, ret |-> cls,
              hit |-> FALSE, resolver |-> TRUE, victim |-> None]

\* get_tool_class / get_extensions, inside "async with self._lock"
GetEffect(c, entries, st, size, name, profile, t) ==
    IF LookupFresh(entries, CacheKey(profile, name), t)
       THEN HitEffect(entries, st, CacheKey(profile, name), t)
       ELSE MissEffect(c, entries, st, size, name, profile, t)

\* mutant of InvalidateEffect: the key is built without its profile prefix
InvalidateEffect_BareName(entries, name, profile) == Without(entries, name)

\* invalidate_tool / invalidate_extension
InvalidateEffect(entries, name, profile) ==
    Without(entries, CacheKey(profile, name))

\* mutant of ClearEffect: the newest entry survives
ClearEffect_KeepNewest(entries) ==
    IF entries = <<>> THEN <<>> ELSE <<entries[Len(entries)]>>

\* clear_cache
ClearEffect(entries) == <<>>

\* cleanup_expired: the entries kept and the number removed
CleanupEffect(entries, t) ==
    LET kept == SelectSeq(entries, LAMBDA e : ~IsSweepable(e, t)) IN
    [entries |-> kept, removed |-> Len(entries) - Len(kept)]

----------------------------------------------------------------------------
(* Observers.  obs[c][k] follows key k of cache c:                         *)
(*   resolved  the resolver was invoked for k since k was last invalidated,*)
(*             cleared or found expired                                    *)
(*   loads     resolver invocations for k during the present residency of  *)
(*             its entry, the one that loaded it included; 0 when absent   *)
(*   last_get  time of the latest Get on k while k is cached, else -1      *)
(*   loaded_at time k's entry was loaded while k is cached, else -1        *)
(* last describes the most recent cache operation.                         *)

Fresh0 == [resolved |-> FALSE, loads |-> 0, last_get |-> -1, loaded_at |-> -1]

NoOp ==
    [c |-> None, op |-> "none", req |-> <<None, None>>, ret |-> None,
     hit |-> FALSE, resolver |-> FALSE, expired |-> FALSE,
     victim |-> None, strict |-> FALSE, newest |-> FALSE, removed |-> FALSE,
     inv_removed |-> FALSE]

LastKey == CacheKey(last.req[1], last.req[2])

\* the entry of key exists and its age has reached the TTL
Stale(entries, key, t) ==
    /\ key \in KeysOf(entries)
    /\ t - entries[IndexOf(entries, key)].last_accessed >= Ttl

\* the LRU victim was, at its eviction, strictly older than every other entry
StrictVictim(pre, key, victim, t) ==
    LET present == IF Stale(pre, key, t) THEN Without(pre, key) ELSE pre IN
    /\ victim \in KeysOf(present)
    /\ Len(present) >= 2
    /\ \A i \in 1..Len(present) :
          present[i].key # victim =>
             present[IndexOf(present, victim)].last_accessed < present[i].last_accessed

\* the LRU victim was the entry inserted last (the dict keeps insertion
\* order), among two entries or more
NewestVictim(pre, key, victim, t) ==
    LET present == IF Stale(pre, key, t) THEN Without(pre, key) ELSE pre IN
    /\ victim \in KeysOf(present)
    /\ Len(present) >= 2
    /\ present[Len(present)].key = victim

ObsAfterGet(o, pre, key, g, t) ==
    LET o1 == IF Stale(pre, key, t) THEN [o EXCEPT ![key] = Fresh0] ELSE o
        gone == (KeysOf(pre) \ KeysOf(g.entries)) \ {key}
        o2 == [k \in DOMAIN o1 |->
                 IF k \in gone
                    THEN [o1[k] EXCEPT !.loads = 0, !.last_get = -1, !.loaded_at = -1]
                    ELSE o1[k]]
        cached == key \in KeysOf(g.entries)
    IN  [o2 EXCEPT
           ![key].resolved = (g.resolver \/ @),
           ![key].loads = IF ~cached THEN 0 ELSE IF g.resolver THEN @ + 1 ELSE @,
           ![key].last_get = IF cached THEN t ELSE -1,
           ![key].loaded_at = IF ~cached THEN -1 ELSE IF g.resolver THEN t ELSE @]

ObsAfterRemoval(o, entries) ==
    [k \in DOMAIN o |-> IF k \in KeysOf(entries) THEN o[k] ELSE Fresh0]

----------------------------------------------------------------------------
(* optimized_tool_execution.py: OptimizedToolExecutor *)

\* the agent that calls execute_tool: agent.agent_name, agent.config.profile
Agents == {"A0"}
Profile(agent) == None

\* the (agent, tool name) pairs of the calls, and the two extension points
ExecRequests == { <<"A0", "A">>, <<"A0", "B">>, <<"A0", "ghost">> }
ExtensionPoints == {"tool_execute_before", "tool_execute_after"}

\* loaded classes whose execute is not a coroutine function
SyncExecute == {"BHelper"}

\* a tool body returns a response or raises
BodyOutcomes == {"ok", "raise"}

\* the extension classes that raise, on instantiation or in execute, in a batch
ExtensionFailures == SUBSET {"BeforeA", "BeforeB", "AfterA"}

ValidateTool_Lenient(cls) == TRUE

\* validate_tool().is_valid for an instance of cls called with a dict of args
ValidateTool(cls) == cls \notin SyncExecute

ThrottleKey(agent, name) == agent \o ":" \o name

\* self._throttle[throttle_key] = current_time
Stamp(map, key, t) ==
    [k \in DOMAIN map \cup {key} |-> IF k = key THEN t ELSE map[k]]

Throttled_Inclusive(map, key, t, window) ==
    key \in DOMAIN map /\ t - map[key] <= window

\* if throttle_key in map: if current_time - last_call < window: return
Throttled(map, key, t, window) ==
    key \in DOMAIN map /\ t - map[key] < window

\* mutant of HandleIntervention: the pause flag is not looked at
HandleIntervention_IgnorePause(map, agent, tool_name, t, isPaused) ==
    LET key == ThrottleKey(agent, tool_name) IN
    IF Throttled(map, key, t, InterventionWindow)
       THEN [throttle |-> map, skipped |-> TRUE, wait |-> FALSE]
       ELSE [throttle |-> Stamp(map, key, t), skipped |-> FALSE, wait |-> FALSE]

\* mutant of HandleIntervention: a skipped check stamps the pair as well
HandleIntervention_StampOnSkip(map, agent, tool_name, t, isPaused) ==
    LET key == ThrottleKey(agent, tool_name) IN
    IF Throttled(map, key, t, InterventionWindow)
       THEN [throttle |-> Stamp(map, key, t), skipped |-> TRUE, wait |-> FALSE]
       ELSE [throttle |-> Stamp(map, key, t), skipped |-> FALSE, wait |-> isPaused]

\* _handle_intervention_optimized: wait is TRUE when the pause loop is entered
HandleIntervention(map, agent, tool_name, t, isPaused) ==
    LET key == ThrottleKey(agent, tool_name) IN
    IF Throttled(map, key, t, InterventionWindow)
       THEN [throttle |-> map, skipped |-> TRUE, wait |-> FALSE]
       ELSE [throttle |-> Stamp(map, key, t), skipped |-> FALSE, wait |-> isPaused]

RECURSIVE RunExtensions_AbortOnFailure(_, _)
RunExtensions_AbortOnFailure(classes, failing) ==
    IF classes = <<>> THEN <<>>
    ELSE IF Head(classes) \in failing
            THEN <<[cls |-> Head(classes), failed |-> TRUE]>>
            ELSE <<[cls |-> Head(classes), failed |-> FALSE]>>
                    \o RunExtensions_AbortOnFailure(Tail(classes), failing)

\* for extension_class in extension_classes: try: ... except Exception: print
\* the result lists the classes attempted, in order, and whether each raised
RECURSIVE RunExtensions(_, _)
RunExtensions(classes, failing) ==
    IF classes = <<>> THEN <<>>
    ELSE <<[cls |-> Head(classes), failed |-> Head(classes) \in failing]>>
            \o RunExtensions(Tail(classes), failing)

CallExtensions_Queue(map, entries, st, size, agent, point, t, failing) ==
    LET key == ThrottleKey(agent, point)
        g == GetEffect("ext", entries, st, size, point, Profile(agent), t)
    IN  [throttle |-> IF Throttled(map, key, t, ExtensionWindow)
                         THEN map ELSE Stamp(map, key, t),
         skipped |-> Throttled(map, key, t, ExtensionWindow),
         entries |-> g.entries, stats |-> g.stats,
         ran |-> RunExtensions(g.ret, failing)]

\* _call_extensions_optimized: ran is the outcome of the batch
CallExtensions(map, entries, st, size, agent, point, t, failing) ==
    LET key == ThrottleKey(agent, point) IN
    IF Throttled(map, key, t, ExtensionWindow)
       THEN [throttle |-> map, skipped |-> TRUE,
             entries |-> entries, stats |-> st, ran |-> <<>>]
       ELSE LET g == GetEffect("ext", entries, st, size, point, Profile(agent), t) IN
            [throttle |-> Stamp(map, key, t), skipped |-> FALSE,
             entries |-> g.entries, stats |-> g.stats,
             ran |-> RunExtensions(g.ret, failing)]

\* the frame of an execute_tool coroutine; pc is the lifecycle step it is at
IdleCall ==
    [pc |-> "idle", waiting |-> FALSE, agent |-> None, tool |-> None,
     cls |-> None, start |-> 0, cache_hit |-> FALSE,
     served_hit |-> FALSE,    \* observer: the tool cache answered with a hit
     extension_calls |-> 0, intervention_calls |-> 0,
     outcome |-> None, error |-> None, ret |-> None]

Gates == {"gate1", "gate2", "gate3", "gate4"}

PcAfter_BodyFirst(pc) ==
    CASE pc = "gate1"      -> "before"
      [] pc = "before"     -> "gate2"
      [] pc = "gate2"      -> "execute"
      [] pc = "execute"    -> "ext_before"
      [] pc = "ext_before" -> "gate3"
      [] pc = "gate3"      -> "ext_after"
      [] pc = "ext_after"  -> "after"
      [] pc = "after"      -> "gate4"
      [] pc = "gate4"      -> "record"
      [] OTHER             -> "done"

\* the step that follows pc in execute_tool
PcAfter(pc) ==
    CASE pc = "gate1"      -> "before"
      [] pc = "before"     -> "gate2"
      [] pc = "gate2"      -> "ext_before"
      [] pc = "ext_before" -> "execute"
      [] pc = "execute"    -> "gate3"
      [] pc = "gate3"      -> "ext_after"
      [] pc = "ext_after"  -> "after"
      [] pc = "after"      -> "gate4"
      [] pc = "gate4"      -> "record"
      [] OTHER             -> "done"

PointAt(pc) == IF pc = "ext_before" THEN "tool_execute_before" ELSE "tool_execute_after"

\* the frame after execute_tool has returned ret
Finished(frame, outcome, error, ret) ==
    [IdleCall EXCEPT !.pc = "done", !.agent = frame.agent, !.tool = frame.tool,
                     !.outcome = outcome, !.error = error, !.ret = ret]

Caught_Reraise(frame, error) == Finished(frame, "raised", error, None)

\* except Exception as e: print; return None
Caught(frame, error) == Finished(frame, "failed", error, None)

\* the ToolExecutionMetrics appended at the end of a completed call
MetricsOf(frame, t) ==
    LET execution_time == t - frame.start IN
    [tool_name |-> frame.tool,
     execution_time |-> execution_time,
     cache_hit |-> frame.cache_hit,
     extension_calls |-> frame.extension_calls,
     intervention_calls |-> frame.intervention_calls,
     total_overhead |-> execution_time
                          - (frame.extension_calls + frame.intervention_calls)]

\* sum(...) over the records of the log
RECURSIVE SumSeq(_)
SumSeq(seq) == IF seq = <<>> THEN 0 ELSE Head(seq) + SumSeq(Tail(seq))

\* the result of get_performance_stats on a non-empty log.  The averages are
\* kept as their numerators over total_executions; divisions counts the
\* divisions evaluated, the last of which, by avg_execution_time, raises
\* ZeroDivisionError when every execution time is zero
StatsOf(log) ==
    LET n == Len(log)
        time_sum == SumSeq([j \in 1..n |-> log[j].execution_time])
        overhead_sum == SumSeq([j \in 1..n |-> log[j].total_overhead])
    IN  [message |-> None,
         raised |-> (time_sum = 0),
         divisions |-> 4,
         total_executions |-> n,
         execution_time_sum |-> time_sum,
         overhead_sum |-> overhead_sum,
         cache_hits |-> Cardinality({j \in 1..n : log[j].cache_hit}),
         total_intervention_calls |-> SumSeq([j \in 1..n |-> log[j].intervention_calls]),
         total_extension_calls |-> SumSeq([j \in 1..n |-> log[j].extension_calls])]

\* {"message": "No metrics available"}
NoMetrics ==
    [message |-> "No metrics available", raised |-> FALSE, divisions |-> 0,
     total_executions |-> 0, execution_time_sum |-> 0, overhead_sum |-> 0,
     cache_hits |-> 0, total_intervention_calls |-> 0, total_extension_calls |-> 0]

\* mutant of GetPerformanceStats: no test for the empty log
GetPerformanceStats_Unguarded(log) ==
    IF Len(log) = 0
       THEN [NoMetrics EXCEPT !.message = None, !.raised = TRUE, !.divisions = 1]
       ELSE StatsOf(log)

\* get_performance_stats
GetPerformanceStats(log) == IF log = <<>> THEN NoMetrics ELSE StatsOf(log)

(* Observers of the throttled invocations *)
ThrottleKinds == {"gate", "ext"}

ThrottleKeys(kind) ==
    IF kind = "gate"
       THEN { ThrottleKey(r[1], r[2]) : r \in ExecRequests }
       ELSE { ThrottleKey(a, p) : a \in Agents, p \in ExtensionPoints }

NoPrev == [seen |-> FALSE, t |-> -1, exec |-> FALSE]

\* gap is the time since the previous invocation for the same pair
NoInv ==
    [kind |-> "none", has_prev |-> FALSE, prev_exec |-> FALSE, gap |-> -1,
     skipped |-> FALSE, ran |-> <<>>]

InvOf(kind, t, before, skipped, ran) ==
    [kind |-> kind, has_prev |-> before.seen, prev_exec |-> before.exec,
     gap |-> IF before.seen THEN t - before.t ELSE -1,
     skipped |-> skipped, ran |-> ran]

InitExec ==
    /\ paused = FALSE
    /\ calls = [i \in CallIds |-> IdleCall]
    /\ metrics = <<>>
    /\ intervention_throttle = [k \in {} |-> 0]
    /\ extension_throttle = [k \in {} |-> 0]
    /\ inv = NoInv
    /\ prev = [kind \in ThrottleKinds |-> [k \in ThrottleKeys(kind) |-> NoPrev]]
    /\ held = [i \in CallIds |-> FALSE]

(* The coroutines that run cache operations step by step *)
Procs == {"p1", "p2"}

\* the frame of a coroutine running a cache operation
IdleProc ==
    [pc |-> "idle", op |-> None, c |-> None, profile |-> None, name |-> None,
     t |-> 0]

----------------------------------------------------------------------------
(* Actions.  A behaviour of Spec drives one cache instance (UnderTest).    *)

Gets(c) == stats[c].hits + stats[c].misses

UnderTest(c) == last.c \in {None, c}

Get(c, profile, name) ==
    /\ LET g == GetEffect(c, cache[c], stats[c], max_size[c], name, profile, now)
           key == CacheKey(profile, name)
       IN  /\ cache' = [cache EXCEPT ![c] = g.entries]
           /\ stats' = [stats EXCEPT ![c] = g.stats]
           /\ obs' = [obs EXCEPT ![c] = ObsAfterGet(@, cache[c], key, g, now)]
           /\ last' = [NoOp EXCEPT
                         !.c = c, !.op = "get", !.req = <<profile, name>>,
                         !.ret = g.ret, !.hit = g.hit, !.resolver = g.resolver,
                         !.expired = Stale(cache[c], key, now), !.victim = g.victim,
                         !.strict = StrictVictim(cache[c], key, g.victim, now),
                         !.newest = NewestVictim(cache[c], key, g.victim, now),
                         !.inv_removed = (/\ last.op = "invalidate"
                                          /\ last.c = c
                                          /\ LastKey = key
                                          /\ last.removed)]
    /\ UNCHANGED <<now, max_size, execVars, execObs, lockVars>>

Invalidate(c, profile, name) ==
    LET key == CacheKey(profile, name)
        kept == InvalidateEffect(cache[c], name, profile)
    IN  /\ cache' = [cache EXCEPT ![c] = kept]
        /\ obs' = [obs EXCEPT ![c] = ObsAfterRemoval(@, kept)]
        /\ last' = [NoOp EXCEPT !.c = c, !.op = "invalidate",
                                !.req = <<profile, name>>,
                                !.removed = (key \in KeysOf(cache[c]))]
        /\ UNCHANGED <<now, stats, max_size, execVars, execObs, lockVars>>

Clear(c) ==
    /\ cache' = [cache EXCEPT ![c] = ClearEffect(cache[c])]
    /\ obs' = [obs EXCEPT ![c] = ObsAfterRemoval(@, ClearEffect(cache[c]))]
    /\ last' = [NoOp EXCEPT !.c = c, !.op = "clear", !.removed = (cache[c] # <<>>)]
    /\ UNCHANGED <<now, stats, max_size, execVars, execObs, lockVars>>

CleanupExpired(c) ==
    LET s == CleanupEffect(cache[c], now) IN
    /\ cache' = [cache EXCEPT ![c] = s.entries]
    /\ stats' = [stats EXCEPT ![c].evictions = @ + s.removed]
    /\ obs' = [obs EXCEPT ![c] = ObsAfterRemoval(@, s.entries)]
    /\ last' = [NoOp EXCEPT !.c = c, !.op = "cleanup", !.removed = (s.removed > 0)]
    /\ UNCHANGED <<now, max_size, execVars, execObs, lockVars>>

Tick ==
    /\ \E d \in TickSteps :
          /\ now + d <= MaxTicks * d
          /\ now' = now + d
    /\ UNCHANGED <<cache, stats, max_size, last, obs, execVars, execObs, lockVars>>

\* the state after construction of caches of the given sizes and of the executor
InitWith(sizes) ==
    /\ now = 0
    /\ cache = [c \in Caches |-> <<>>]
    /\ stats = [c \in Caches |-> [hits |-> 0, misses |-> 0, evictions |-> 0, loads |-> 0]]
    /\ max_size = sizes
    /\ last = NoOp
    /\ obs = [c \in Caches |-> [k \in CacheKeys(c) |-> Fresh0]]
    /\ InitExec
    /\ lock = [c \in Caches |-> None]
    /\ procs = [p \in Procs |-> IdleProc]
    /\ joined = [p \in Procs |-> FALSE]

Init == \E n \in MaxSizes : InitWith([c \in Caches |-> n])

Next ==
    \/ \E c \in Caches : \E r \in Requests(c) :
          UnderTest(c) /\ Gets(c) < MaxGets /\ Get(c, r[1], r[2])
    \/ \E c \in Caches : \E r \in Requests(c) : UnderTest(c) /\ Invalidate(c, r[1], r[2])
    \/ \E c \in Caches : UnderTest(c) /\ Clear(c)
    \/ \E c \in Caches : UnderTest(c) /\ CleanupExpired(c)
    \/ Tick

Spec == Init /\ [][Next]_vars

(* Behaviours made of Gets alone, from the empty caches. *)
NextGets ==
    \/ \E c \in Caches : \E r \in Requests(c) :
          UnderTest(c) /\ Gets(c) < MaxScenarioGets /\ Get(c, r[1], r[2])
    \/ Tick

SpecGets == Init /\ [][NextGets]_vars

----------------------------------------------------------------------------
(* execute_tool, one action per awaited step.  The executor serves the     *)
(* module-level caches, built with the default sizes.  Coroutines are      *)
(* scheduled cooperatively: a call keeps the event loop until it suspends, *)
(* which it does in the pause loop, in the tool body and in the body of an *)
(* extension; the cache lookups and the hooks of tool.py never suspend.    *)

DefaultSizes == [c \in Caches |-> IF c = "tool" THEN 100 ELSE 50]

InitExecutor == InitWith(DefaultSizes)

\* the call owns the event loop: it is between two suspension points
Busy(frame) ==
    /\ ~frame.waiting
    /\ frame.pc \in {"gate1", "before", "gate2", "ext_before",
                     "gate3", "ext_after", "gate4", "record"}

\* no other coroutine owns the event loop
Runnable(i) == \A j \in CallIds \ {i} : ~Busy(calls[j])

\* lines 43-70: resolve the class through the tool cache and instantiate it
Start(i, agent, tool_name) ==
    /\ Runnable(i)
    /\ calls[i].pc = "idle"
    /\ \A j \in CallIds : j < i => calls[j].pc # "idle"
    /\ LET g == GetEffect("tool", cache["tool"], stats["tool"], max_size["tool"],
                          tool_name, Profile(agent), now)
           frame == [IdleCall EXCEPT !.agent = agent, !.tool = tool_name]
       IN  /\ cache' = [cache EXCEPT !["tool"] = g.entries]
           /\ stats' = [stats EXCEPT !["tool"] = g.stats]
           /\ calls' = [calls EXCEPT ![i] =
                          IF Found("tool", g.ret)
                             THEN [frame EXCEPT !.pc = "gate1", !.cls = g.ret,
                                                !.start = now, !.cache_hit = TRUE,
                                                !.served_hit = g.hit]
                             ELSE Finished(frame, "not_found", None, None)]
    /\ held' = [held EXCEPT ![i] = paused]
    /\ UNCHANGED <<now, max_size, paused, metrics, intervention_throttle,
                   extension_throttle, cacheObs, lockVars, inv, prev>>

\* await self._handle_intervention_optimized(agent, tool_name)
Gate(i) ==
    LET f == calls[i]
        key == ThrottleKey(f.agent, f.tool)
        r == HandleIntervention(intervention_throttle, f.agent, f.tool, now,
                                paused)
    IN  /\ Runnable(i)
        /\ f.pc \in Gates
        /\ ~f.waiting
        /\ intervention_throttle' = r.throttle
        /\ calls' = [calls EXCEPT ![i] =
                       IF r.wait
                          THEN [f EXCEPT !.waiting = TRUE]
                          ELSE [f EXCEPT !.pc = PcAfter(f.pc),
                                         !.intervention_calls = @ + 1]]
        /\ inv' = InvOf("gate", now, prev["gate"][key], r.skipped, <<>>)
        /\ prev' = [prev EXCEPT !["gate"][key] =
                      [seen |-> TRUE, t |-> now, exec |-> ~r.skipped]]
        /\ UNCHANGED <<now, cacheVars, cacheObs, lockVars, paused, metrics,
                       extension_throttle, held>>

\* mutant of PollPause: the loop is left whatever the flag
PollPause_Timeout(i) ==
    LET f == calls[i] IN
    /\ Runnable(i)
    /\ f.waiting
    /\ calls' = [calls EXCEPT ![i] =
                   [f EXCEPT !.waiting = FALSE, !.pc = PcAfter(f.pc),
                             !.intervention_calls = @ + 1]]
    /\ UNCHANGED <<now, cacheVars, cacheObs, lockVars, paused, metrics,
                   intervention_throttle, extension_throttle, execObs>>

\* mutant of PollPause: the loop is not left when the flag is clear
PollPause_Stuck(i) ==
    /\ Runnable(i)
    /\ calls[i].waiting
    /\ ~paused
    /\ UNCHANGED vars

\* while agent.context.paused: await asyncio.sleep(0.1)
PollPause(i) ==
    LET f == calls[i] IN
    /\ Runnable(i)
    /\ f.waiting
    /\ ~paused
    /\ calls' = [calls EXCEPT ![i] =
                   [f EXCEPT !.waiting = FALSE, !.pc = PcAfter(f.pc),
                             !.intervention_calls = @ + 1]]
    /\ UNCHANGED <<now, cacheVars, cacheObs, lockVars, paused, metrics,
                   intervention_throttle, extension_throttle, execObs>>

\* mutant of BeforeExecution: a failed validation is recorded as well
BeforeExecution_Recorded(i) ==
    LET f == calls[i] IN
    /\ Runnable(i)
    /\ f.pc = "before"
    /\ calls' = [calls EXCEPT ![i] =
                   IF ValidateTool(f.cls)
                      THEN [f EXCEPT !.pc = PcAfter(f.pc)]
                      ELSE Caught(f, "ValueError")]
    /\ metrics' = IF ValidateTool(f.cls) THEN metrics
                                         ELSE Append(metrics, MetricsOf(f, now))
    /\ UNCHANGED <<now, cacheVars, cacheObs, lockVars, paused,
                   intervention_throttle, extension_throttle, execObs>>

\* await tool.before_execution(**tool_args)
BeforeExecution(i) ==
    LET f == calls[i] IN
    /\ Runnable(i)
    /\ f.pc = "before"
    /\ calls' = [calls EXCEPT ![i] =
                   IF ValidateTool(f.cls)
                      THEN [f EXCEPT !.pc = PcAfter(f.pc)]
                      ELSE Caught(f, "ValueError")]
    /\ UNCHANGED <<now, cacheVars, cacheObs, lockVars, paused, metrics,
                   intervention_throttle, extension_throttle, execObs>>

\* await self._call_extensions_optimized(agent, point, ...)
Extensions(i) ==
    LET f == calls[i]
        point == PointAt(f.pc)
        key == ThrottleKey(f.agent, point)
    IN  /\ Runnable(i)
        /\ f.pc \in {"ext_before", "ext_after"}
        /\ \E failing \in ExtensionFailures :
              LET r == CallExtensions(extension_throttle, cache["ext"], stats["ext"],
                                      max_size["ext"], f.agent, point, now, failing)
              IN  /\ extension_throttle' = r.throttle
                  /\ cache' = [cache EXCEPT !["ext"] = r.entries]
                  /\ stats' = [stats EXCEPT !["ext"] = r.stats]
                  /\ inv' = InvOf("ext", now, prev["ext"][key], r.skipped, r.ran)
                  /\ prev' = [prev EXCEPT !["ext"][key] =
                                [seen |-> TRUE, t |-> now, exec |-> ~r.skipped]]
        /\ calls' = [calls EXCEPT ![i] =
                       [f EXCEPT !.pc = PcAfter(f.pc), !.extension_calls = @ + 1]]
        /\ UNCHANGED <<now, max_size, cacheObs, lockVars, paused, metrics,
                       intervention_throttle, held>>

\* response = await tool.execute(**tool_args)
Execute(i) ==
    LET f == calls[i] IN
    /\ Runnable(i)
    /\ f.pc = "execute"
    /\ \E o \in BodyOutcomes :
          calls' = [calls EXCEPT ![i] =
                      IF o = "ok"
                         THEN [f EXCEPT !.pc = PcAfter(f.pc), !.ret = "response"]
                         ELSE Caught(f, "Exception")]
    /\ UNCHANGED <<now, cacheVars, cacheObs, lockVars, paused, metrics,
                   intervention_throttle, extension_throttle, execObs>>

\* await tool.after_execution(response)
AfterExecution(i) ==
    LET f == calls[i] IN
    /\ Runnable(i)
    /\ f.pc = "after"
    /\ calls' = [calls EXCEPT ![i] = [f EXCEPT !.pc = PcAfter(f.pc)]]
    /\ UNCHANGED <<now, cacheVars, cacheObs, lockVars, paused, metrics,
                   intervention_throttle, extension_throttle, execObs>>

\* mutant of Record: the log keeps the latest record only
Record_Replace(i) ==
    LET f == calls[i] IN
    /\ Runnable(i)
    /\ f.pc = "record"
    /\ metrics' = <<MetricsOf(f, now)>>
    /\ calls' = [calls EXCEPT ![i] = Finished(f, "completed", None, f.ret)]
    /\ UNCHANGED <<now, cacheVars, cacheObs, lockVars, paused,
                   intervention_throttle, extension_throttle, execObs>>

\* lines 107-113: compute the metrics, append them, return the response
Record(i) ==
    LET f == calls[i] IN
    /\ Runnable(i)
    /\ f.pc = "record"
    /\ metrics' = Append(metrics, MetricsOf(f, now))
    /\ calls' = [calls EXCEPT ![i] = Finished(f, "completed", None, f.ret)]
    /\ UNCHANGED <<now, cacheVars, cacheObs, lockVars, paused,
                   intervention_throttle, extension_throttle, execObs>>

\* mutant of ClearMetrics: only the log is cleared
ClearMetrics_KeepThrottle ==
    /\ \A i \in CallIds : ~Busy(calls[i])
    /\ metrics' = <<>>
    /\ prev' = [kind \in ThrottleKinds |-> [k \in ThrottleKeys(kind) |-> NoPrev]]
    /\ UNCHANGED <<now, cacheVars, cacheObs, lockVars, paused, calls, inv, held,
                   intervention_throttle, extension_throttle>>

\* clear_metrics
ClearMetrics ==
    /\ \A i \in CallIds : ~Busy(calls[i])
    /\ metrics' = <<>>
    /\ intervention_throttle' = [k \in {} |-> 0]
    /\ extension_throttle' = [k \in {} |-> 0]
    /\ prev' = [kind \in ThrottleKinds |-> [k \in ThrottleKeys(kind) |-> NoPrev]]
    /\ UNCHANGED <<now, cacheVars, cacheObs, lockVars, paused, calls, inv, held>>

\* the context is paused and resumed from outside the executor
SetPaused(flag) ==
    /\ paused # flag
    /\ paused' = flag
    /\ held' = [i \in CallIds |-> held[i] /\ flag]
    /\ UNCHANGED <<now, cacheVars, cacheObs, lockVars, calls, metrics,
                   intervention_throttle, extension_throttle, inv, prev>>

ExecTick ==
    /\ \E d \in ExecTickSteps :
          /\ now + d <= MaxExecTicks * d
          /\ now' = now + d
    /\ UNCHANGED <<cacheVars, cacheObs, lockVars, execVars, execObs>>

NextExec ==
    \/ \E i \in CallIds : \E r \in ExecRequests : Start(i, r[1], r[2])
    \/ \E i \in CallIds : Gate(i)
    \/ \E i \in CallIds : PollPause(i)
    \/ \E i \in CallIds : BeforeExecution(i)
    \/ \E i \in CallIds : Extensions(i)
    \/ \E i \in CallIds : Execute(i)
    \/ \E i \in CallIds : AfterExecution(i)
    \/ \E i \in CallIds : Record(i)
    \/ ClearMetrics
    \/ \E flag \in BOOLEAN : SetPaused(flag)
    \/ ExecTick

SpecExec == InitExecutor /\ [][NextExec]_vars

\* the steps of the coroutine of call i once it has been created
CallNext(i) ==
    \/ Gate(i)
    \/ PollPause(i)
    \/ BeforeExecution(i)
    \/ Extensions(i)
    \/ Execute(i)
    \/ AfterExecution(i)
    \/ Record(i)

\* one session of the executor, from its construction to the first reset
NextSession ==
    \/ \E i \in CallIds : \E r \in ExecRequests : Start(i, r[1], r[2])
    \/ \E i \in CallIds : Gate(i)
    \/ \E i \in CallIds : PollPause(i)
    \/ \E i \in CallIds : BeforeExecution(i)
    \/ \E i \in CallIds : Extensions(i)
    \/ \E i \in CallIds : Execute(i)
    \/ \E i \in CallIds : AfterExecution(i)
    \/ \E i \in CallIds : Record(i)
    \/ \E flag \in BOOLEAN : SetPaused(flag)
    \/ ExecTick

\* The event loop runs every ready coroutine in turn, asyncio.sleep(0.1)
\* wakes the poll loop again and again, and the tool and extension bodies
\* return: a call that stays able to take its next step takes it.
SpecExecFair ==
    /\ InitExecutor
    /\ [][NextSession]_vars
    /\ \A i \in CallIds : WF_vars(CallNext(i))

----------------------------------------------------------------------------
(* The cache operations step by step, with the asyncio.Lock of each cache. *)
(* "async with self._lock" suspends the coroutine while another one holds  *)
(* the lock; inside the critical section every await is taken as a point   *)
(* where another coroutine may run.                                        *)

\* the key a coroutine's operation is about
KeyOfProc(q) == CacheKey(procs[q].profile, procs[q].name)

\* coroutine q waits for the lock of cache c to run the same Get as p
WaitsWith(q, p, c) ==
    /\ q # p
    /\ procs[q].op = "get"
    /\ procs[q].pc = "acquire"
    /\ procs[q].c = c
    /\ KeyOfProc(q) = KeyOfProc(p)

\* joined after a step of p on cache c that leaves the entries `after`:
\* a miss of p marks the coroutines waiting with the same Get, the removal
\* of the key of a marked coroutine unmarks it
JoinedAfter(p, c, after, missed) ==
    [q \in Procs |->
        \/ missed /\ WaitsWith(q, p, c)
        \/ /\ joined[q]
           /\ ~(procs[q].c = c /\ KeyOfProc(q) \in KeysOf(cache[c]) \ KeysOf(after))]

\* the steps taken while holding the lock
InsideLock == {"lookup", "load", "add", "body", "release"}

CanAcquire_Always(holder) == TRUE

\* asyncio.Lock.acquire returns at once when the lock is free, else it waits
CanAcquire(holder) == holder = None

\* the coroutine is called: the statements before "async with self._lock"
\* (cleanup_expired reads the time there)
CallOp(p, op, c, profile, name) ==
    /\ procs[p].pc = "idle"
    /\ op = "get" => Gets(c) < MaxGets
    /\ procs' = [procs EXCEPT ![p] =
                   [pc |-> "acquire", op |-> op, c |-> c, profile |-> profile,
                    name |-> name, t |-> IF op = "cleanup" THEN now ELSE 0]]
    /\ UNCHANGED <<now, cacheVars, cacheObs, execVars, execObs, lock, joined>>

\* async with self._lock: (entry)
Acquire(p) ==
    LET f == procs[p] IN
    /\ f.pc = "acquire"
    /\ CanAcquire(lock[f.c])
    /\ lock' = [lock EXCEPT ![f.c] = p]
    /\ procs' = [procs EXCEPT ![p].pc = IF f.op = "get" THEN "lookup" ELSE "body"]
    /\ UNCHANGED <<now, cacheVars, cacheObs, execVars, execObs, joined>>

\* mutant of Lookup: the lock is given up before the class is loaded
Lookup_UnlockedLoad(p) ==
    LET f == procs[p]
        key == CacheKey(f.profile, f.name)
    IN  /\ f.pc = "lookup"
        /\ IF LookupFresh(cache[f.c], key, now)
              THEN LET h == HitEffect(cache[f.c], stats[f.c], key, now) IN
                   /\ cache' = [cache EXCEPT ![f.c] = h.entries]
                   /\ stats' = [stats EXCEPT ![f.c] = h.stats]
                   /\ procs' = [procs EXCEPT ![p].pc = "release"]
                   /\ lock' = lock
              ELSE LET d == DropStale(cache[f.c], stats[f.c], key) IN
                   /\ cache' = [cache EXCEPT ![f.c] = d.entries]
                   /\ stats' = [stats EXCEPT ![f.c] = [d.stats EXCEPT !.misses = @ + 1]]
                   /\ procs' = [procs EXCEPT ![p].pc = "load"]
                   /\ lock' = [lock EXCEPT ![f.c] = None]
        /\ joined' = JoinedAfter(p, f.c, cache'[f.c],
                                  ~LookupFresh(cache[f.c], key, now))
        /\ UNCHANGED <<now, max_size, cacheObs, execVars, execObs>>

\* get, lines 45-61: the lookup, the hit branch or the removal of a stale
\* entry and the count of the miss
Lookup(p) ==
    LET f == procs[p]
        key == CacheKey(f.profile, f.name)
    IN  /\ f.pc = "lookup"
        /\ IF LookupFresh(cache[f.c], key, now)
              THEN LET h == HitEffect(cache[f.c], stats[f.c], key, now) IN
                   /\ cache' = [cache EXCEPT ![f.c] = h.entries]
                   /\ stats' = [stats EXCEPT ![f.c] = h.stats]
                   /\ procs' = [procs EXCEPT ![p].pc = "release"]
              ELSE LET d == DropStale(cache[f.c], stats[f.c], key) IN
                   /\ cache' = [cache EXCEPT ![f.c] = d.entries]
                   /\ stats' = [stats EXCEPT ![f.c] = [d.stats EXCEPT !.misses = @ + 1]]
                   /\ procs' = [procs EXCEPT ![p].pc = "load"]
        /\ joined' = JoinedAfter(p, f.c, cache'[f.c],
                                  ~LookupFresh(cache[f.c], key, now))
        /\ UNCHANGED <<now, max_size, cacheObs, execVars, execObs, lock>>

\* mutant of Load: a Get whose resolver found nothing returns without
\* leaving the "async with" block
Load_LeakOnFailure(p) ==
    LET f == procs[p] IN
    /\ f.pc = "load"
    /\ procs' = [procs EXCEPT ![p] =
                   IF Found(f.c, Resolve(f.c, f.name, f.profile))
                      THEN [f EXCEPT !.pc = "add"] ELSE IdleProc]
    /\ UNCHANGED <<now, cacheVars, cacheObs, execVars, execObs, lock, joined>>

\* get, lines 62-64: await self._load_tool_class(...); if tool_class:
Load(p) ==
    LET f == procs[p] IN
    /\ f.pc = "load"
    /\ procs' = [procs EXCEPT ![p].pc =
                   IF Found(f.c, Resolve(f.c, f.name, f.profile))
                      THEN "add" ELSE "release"]
    /\ UNCHANGED <<now, cacheVars, cacheObs, execVars, execObs, lock, joined>>

\* get, lines 66-67: await self._add_to_cache(...); self._stats['loads'] += 1
Add(p) ==
    LET f == procs[p]
        a == AddToCache(f.c, cache[f.c], max_size[f.c], CacheKey(f.profile, f.name),
                        Resolve(f.c, f.name, f.profile), f.name, f.profile, now)
    IN  /\ f.pc = "add"
        /\ cache' = [cache EXCEPT ![f.c] = a.entries]
        /\ stats' = [stats EXCEPT ![f.c] =
                       [@ EXCEPT !.evictions = @ + a.evicted, !.loads = @ + 1]]
        /\ procs' = [procs EXCEPT ![p].pc = "release"]
        /\ joined' = JoinedAfter(p, f.c, cache'[f.c], FALSE)
        /\ UNCHANGED <<now, max_size, cacheObs, execVars, execObs, lock>>

\* the body of invalidate, clear_cache and cleanup_expired
Body(p) ==
    LET f == procs[p]
        s == CleanupEffect(cache[f.c], f.t)
    IN  /\ f.pc = "body"
        /\ cache' = [cache EXCEPT ![f.c] =
                       CASE f.op = "invalidate" -> InvalidateEffect(@, f.name, f.profile)
                         [] f.op = "clear"      -> ClearEffect(@)
                         [] OTHER               -> s.entries]
        /\ stats' = [stats EXCEPT ![f.c].evictions =
                       IF f.op = "cleanup" THEN @ + s.removed ELSE @]
        /\ procs' = [procs EXCEPT ![p].pc = "release"]
        /\ joined' = JoinedAfter(p, f.c, cache'[f.c], FALSE)
        /\ UNCHANGED <<now, max_size, cacheObs, execVars, execObs, lock>>

\* async with self._lock: (exit, also on return)
Release(p) ==
    LET f == procs[p] IN
    /\ f.pc = "release"
    /\ lock' = [lock EXCEPT ![f.c] = None]
    /\ procs' = [procs EXCEPT ![p] = IdleProc]
    /\ joined' = [joined EXCEPT ![p] = FALSE]
    /\ UNCHANGED <<now, cacheVars, cacheObs, execVars, execObs>>

\* the module-level instance _tool_cache, the requests made of it
LockCaches == {"tool"}
LockRequests == { <<None, "A">>, <<None, "B">>, <<None, "ghost">> }

NextLock ==
    \/ \E p \in Procs : \E c \in LockCaches : \E r \in LockRequests :
          \E op \in {"get", "invalidate"} : CallOp(p, op, c, r[1], r[2])
    \/ \E p \in Procs : \E c \in LockCaches :
          \E op \in {"clear", "cleanup"} : CallOp(p, op, c, None, None)
    \/ \E p \in Procs : Acquire(p)
    \/ \E p \in Procs : Lookup(p)
    \/ \E p \in Procs : Load(p)
    \/ \E p \in Procs : Add(p)
    \/ \E p \in Procs : Body(p)
    \/ \E p \in Procs : Release(p)
    \/ Tick

\* ToolCache(max_size=1): the smallest cache, where every insertion into a
\* full map evicts
InitLock == InitWith([c \in Caches |-> 1])

SpecLock == InitLock /\ [][NextLock]_vars

\* the steps of coroutine p between the entry and the exit of "async with"
InsideNext(p) == Lookup(p) \/ Load(p) \/ Add(p) \/ Body(p) \/ Release(p)

\* the requests of the coroutines that contend for the lock
FairRequests == { <<None, "A">>, <<None, "ghost">> }

NextLockFair ==
    \/ \E p \in Procs : \E c \in LockCaches : \E r \in FairRequests :
          \E op \in {"get", "invalidate"} : CallOp(p, op, c, r[1], r[2])
    \/ \E p \in Procs : \E c \in LockCaches :
          \E op \in {"clear", "cleanup"} : CallOp(p, op, c, None, None)
    \/ \E p \in Procs : Acquire(p)
    \/ \E p \in Procs : Lookup(p)
    \/ \E p \in Procs : Load(p)
    \/ \E p \in Procs : Add(p)
    \/ \E p \in Procs : Body(p)
    \/ \E p \in Procs : Release(p)

\* Fair scheduling: the event loop runs every coroutine that is ready, so a
\* coroutine inside the critical section takes its next step (nothing in it
\* blocks), and asyncio.Lock wakes its waiters in the order of their
\* arrival, so a waiter is not overtaken for ever: a coroutine that finds
\* the lock free again and again gets it.
SpecLockFair ==
    /\ InitLock
    /\ [][NextLockFair]_vars
    /\ \A p \in Procs : WF_vars(InsideNext(p))
    /\ \A p \in Procs : SF_vars(Acquire(p))

----------------------------------------------------------------------------
(* Properties of the caches *)

\* a step that is a Get on cache c: Get alone adds to hits + misses
GetStep(c) ==
    stats'[c].hits + stats'[c].misses = stats[c].hits + stats[c].misses + 1

\* the key and the entry a Get step is about, read around the step
StepKey == CacheKey(last'.req[1], last'.req[2])

EntryOf(entries, key) == entries[IndexOf(entries, key)]

HitStep(c) ==
    /\ stats'[c].hits = stats[c].hits + 1
    /\ stats'[c].misses = stats[c].misses
    /\ ~last'.resolver

MissStep(c) ==
    /\ stats'[c].misses = stats[c].misses + 1
    /\ stats'[c].hits = stats[c].hits
    /\ last'.resolver

\* C1: in every reachable state of either cache, under any interleaving of
\* get, invalidate, clear and cleanup_expired, the entry map holds at most
\* max_size entries.
C1_SizeBound == \A c \in Caches : Len(cache[c]) <= max_size[c]

\* an insertion into a full cache has just happened and the cache is full
C1_Witness ==
    \E c \in Caches :
        /\ last.c = c /\ last.op = "get" /\ last.victim # None
        /\ Len(cache[c]) = max_size[c]

\* C2 as stated: within a span of Gets in which the key is neither
\* invalidated, cleared nor expired, the resolver runs at most once for it.
C2_ResolverAtMostOnce ==
    [][\A c \in Caches :
          GetStep(c) /\ obs[c][StepKey].resolved /\ ~Stale(cache[c], StepKey, now)
             => ~last'.resolver]_vars

\* C2 amended: while a key's entry stays in the cache (not invalidated,
\* cleared, expired or evicted by the LRU rule) the resolver runs at most
\* once for it, namely for the load that created the entry.
C2_ResolverOncePerResidency ==
    \A c \in Caches : \A k \in CacheKeys(c) : obs[c][k].loads <= 1

\* a Get on a key loaded earlier was served without the resolver
C2_Witness ==
    \E c \in Caches :
        /\ last.c = c /\ last.op = "get" /\ last.hit /\ ~last.resolver
        /\ obs[c][LastKey].loads = 1

\* C3: a Get never answers as a hit (hits incremented, resolver not invoked)
\* from an entry whose age now - last_accessed is not below the TTL.
C3_NoHitWhenStale ==
    [][\A c \in Caches :
          GetStep(c) /\ Stale(cache[c], StepKey, now) => MissStep(c)]_vars

\* a Get has just found the entry of its key stale
C3_Witness == last.op = "get" /\ last.expired

\* C4: an insertion into a cache at capacity evicts exactly one entry, one of
\* minimal last_accessed among the entries present at that moment, and an
\* insertion into a cache below capacity evicts nothing.
C4_EvictsLeastRecent ==
    [][\A c \in Caches :
          GetStep(c) /\ StepKey \in KeysOf(cache'[c]) /\ last'.resolver =>
             LET present == IF Stale(cache[c], StepKey, now)
                               THEN Without(cache[c], StepKey)
                               ELSE cache[c]
                 gone == KeysOf(present) \ KeysOf(cache'[c])
             IN  IF Len(present) >= max_size[c]
                    THEN /\ Cardinality(gone) = 1
                         /\ \A v \in gone : \A k \in KeysOf(present) :
                               EntryOf(present, v).last_accessed
                                  <= EntryOf(present, k).last_accessed
                         /\ stats'[c].evictions =
                               stats[c].evictions + 1 + Len(cache[c]) - Len(present)
                    ELSE /\ gone = {}
                         /\ stats'[c].evictions =
                               stats[c].evictions + Len(cache[c]) - Len(present)]_vars

\* the LRU rule has just evicted, out of two entries, the strictly older one
C4_Witness == last.op = "get" /\ last.victim # None /\ last.strict

\* C5: a Get that directly follows invalidate of the same key takes the miss
\* path: misses is incremented and the resolver is invoked for the key.
C5_MissAfterInvalidate ==
    [][\A c \in Caches :
          GetStep(c) /\ last.op = "invalidate" /\ last.c = c /\ LastKey = StepKey
             => MissStep(c)]_vars

\* a Get has just followed an invalidate that removed the entry of its key
C5_Witness == last.op = "get" /\ last.inv_removed /\ last.resolver

\* C6: when the resolver fails for the request, Get returns the not-found
\* value, leaves no entry for the key and leaves the loads counter unchanged.
C6_SoftFailure ==
    [][\A c \in Caches :
          (/\ GetStep(c)
           /\ last'.resolver
           /\ Resolve(c, last'.req[2], last'.req[1]) = NotFound(c))
             => /\ last'.ret = NotFound(c)
                /\ StepKey \notin KeysOf(cache'[c])
                /\ stats'[c].loads = stats[c].loads]_vars

\* a Get has just invoked a resolver that failed
C6_Witness ==
    /\ last.op = "get" /\ last.resolver
    /\ Resolve(last.c, last.req[2], last.req[1]) = NotFound(last.c)

\* C7: a Get on a cached key that comes less than the TTL after the previous
\* Get on that key is a hit, however long ago the entry was loaded.
C7_TtlFromLastAccess ==
    [][\A c \in Caches :
          (/\ GetStep(c)
           /\ StepKey \in KeysOf(cache[c])
           /\ now - obs[c][StepKey].last_get < Ttl)
             => HitStep(c)]_vars

\* a hit on an entry that was loaded at least one TTL ago
C7_Witness ==
    \E c \in Caches :
        /\ last.c = c /\ last.op = "get" /\ last.hit
        /\ now - obs[c][LastKey].loaded_at >= Ttl

\* C9 as stated: a Get on a key whose entry is stale ends as the same Get
\* would on the cache without that entry: same entries, same return value,
\* same resolver invocation, same counters.
C9_StaleAsAbsent ==
    [][\A c \in Caches :
          GetStep(c) /\ Stale(cache[c], StepKey, now) =>
             LET alt == GetEffect(c, Without(cache[c], StepKey), stats[c],
                                  max_size[c], last'.req[2], last'.req[1], now)
             IN  /\ cache'[c] = alt.entries
                 /\ last'.ret = alt.ret
                 /\ last'.resolver = alt.resolver
                 /\ stats'[c] = alt.stats]_vars

\* C9 amended: the same, but the stale entry's removal is counted as one
\* more eviction.
C9_StaleAsAbsentButCounted ==
    [][\A c \in Caches :
          GetStep(c) /\ Stale(cache[c], StepKey, now) =>
             LET alt == GetEffect(c, Without(cache[c], StepKey), stats[c],
                                  max_size[c], last'.req[2], last'.req[1], now)
             IN  /\ cache'[c] = alt.entries
                 /\ last'.ret = alt.ret
                 /\ last'.resolver = alt.resolver
                 /\ stats'[c] = [alt.stats EXCEPT !.evictions = @ + 1]]_vars

\* a Get has just reloaded a key whose entry was stale, into a full cache
C9_Witness ==
    \E c \in Caches :
        /\ last.c = c /\ last.op = "get" /\ last.expired /\ last.resolver
        /\ LastKey \in KeysOf(cache[c])
        /\ Len(cache[c]) = 2

\* the counters of cache c read (hits, misses, loads, evictions)
Counters(c, h, m, l, e) ==
    /\ stats[c].hits = h /\ stats[c].misses = m
    /\ stats[c].loads = l /\ stats[c].evictions = e

\* C8: with max_size 2 and a TTL of 300 s, Get(A), Get(B), Get(C) on an empty
\* cache (all resolvable, no expiry): the insertion of C evicts the one of A
\* and B with the older last_accessed; then a Get on the evicted key misses
\* and reloads, and a Get on the other one hits.  (Checked over behaviours of
\* Gets alone, where the counters tell how many Gets have loaded.)
C8_ThreeKeysScenario ==
    [][\A c \in Caches :
          GetStep(c) /\ max_size[c] = 2 /\ TtlSeconds = 300 =>
             /\ (/\ Counters(c, 0, 2, 2, 0)
                 /\ Len(cache[c]) = 2
                 /\ StepKey \notin KeysOf(cache[c])
                 /\ Resolve(c, last'.req[2], last'.req[1]) # NotFound(c))
                   => LET a == cache[c][1]
                          b == cache[c][2]
                      IN  /\ StepKey \in KeysOf(cache'[c])
                          /\ Len(cache'[c]) = 2
                          /\ (a.key \in KeysOf(cache'[c])) # (b.key \in KeysOf(cache'[c]))
                          /\ a.last_accessed < b.last_accessed
                                => a.key \notin KeysOf(cache'[c])
                          /\ b.last_accessed < a.last_accessed
                                => b.key \notin KeysOf(cache'[c])
             /\ (/\ Counters(c, 0, 3, 3, 1)
                 /\ last.victim # None
                 /\ StepKey = last.victim)
                   => /\ MissStep(c)
                      /\ stats'[c].loads = stats[c].loads + 1
                      /\ StepKey \in KeysOf(cache'[c])
             /\ (/\ Counters(c, 0, 3, 3, 1)
                 /\ last.victim # None
                 /\ StepKey \in KeysOf(cache[c]) \ {LastKey}
                 /\ now - EntryOf(cache[c], StepKey).last_accessed < Ttl)
                   => HitStep(c)]_vars

\* after the three Gets, a fourth Get on the surviving key has just hit
C8_Witness ==
    \E c \in Caches :
        /\ last.c = c /\ last.op = "get" /\ last.hit
        /\ max_size[c] = 2
        /\ Counters(c, 1, 3, 3, 1)
        /\ Cardinality({k \in CacheKeys(c) : obs[c][k].resolved}) = 3

----------------------------------------------------------------------------
(* Properties of the executor *)

\* the classes a batch attempted, in order
Attempted(ran) == [j \in 1..Len(ran) |-> ran[j].cls]

\* call i performs a pause-gate check / an extension-point batch in this step
GateStep(i) ==
    calls[i].pc \in Gates /\ ~calls[i].waiting /\ calls'[i] # calls[i]

ExtStep(i) ==
    calls[i].pc \in {"ext_before", "ext_after"} /\ calls'[i] # calls[i]

Advanced(i) ==
    ~calls'[i].waiting /\ calls'[i].pc = PcAfter(calls[i].pc)

\* the pause-gate check of call i is a no-op: nothing is stamped and the
\* pause flag is not looked at, the call goes on even when it is set
NoOpGate(i) ==
    /\ intervention_throttle' = intervention_throttle
    /\ Advanced(i)

\* the pause-gate check of call i executes: the pair is stamped with the
\* current time and the call goes on only if the pause flag is clear
ExecGate(i, key) ==
    /\ key \in DOMAIN intervention_throttle'
    /\ intervention_throttle'[key] = now
    /\ calls'[i].waiting = paused
    /\ ~paused => Advanced(i)

\* the extension batch of call i is a no-op: nothing is stamped, the
\* extension cache is not consulted and no extension is instantiated
NoOpExt(i) ==
    /\ extension_throttle' = extension_throttle
    /\ cache' = cache
    /\ stats' = stats
    /\ inv'.ran = <<>>
    /\ Advanced(i)

\* the extension batch of call i executes: the pair is stamped, the extension
\* cache answers one Get and every extension of the point is instantiated
ExecExt(i, key) ==
    /\ key \in DOMAIN extension_throttle'
    /\ extension_throttle'[key] = now
    /\ Gets("ext")' = Gets("ext") + 1
    /\ Attempted(inv'.ran) = LoadExtensions(PointAt(calls[i].pc), Profile(calls[i].agent))
    /\ Advanced(i)

\* C10: of two successive invocations of a throttled call class for the same
\* pair (pause-gate check per (agent, tool), window 100 ms; extension batch
\* per (agent, extension point), window 50 ms), the first of which executed:
\* the second is a no-op when it comes less than the window after the first
\* and executes when it comes at least the window after it.  An invocation
\* with no earlier one for its pair executes.
C10_ThrottleWindow ==
    [][\A i \in CallIds :
          /\ GateStep(i) =>
                LET key == ThrottleKey(calls[i].agent, calls[i].tool)
                    first == prev["gate"][key]
                IN  /\ ~first.seen => ExecGate(i, key)
                    /\ (first.seen /\ first.exec /\ now - first.t < InterventionWindow)
                          => NoOpGate(i)
                    /\ (first.seen /\ first.exec /\ now - first.t >= InterventionWindow)
                          => ExecGate(i, key)
          /\ ExtStep(i) =>
                LET key == ThrottleKey(calls[i].agent, PointAt(calls[i].pc))
                    first == prev["ext"][key]
                IN  /\ ~first.seen => ExecExt(i, key)
                    /\ (first.seen /\ first.exec /\ now - first.t < ExtensionWindow)
                          => NoOpExt(i)
                    /\ (first.seen /\ first.exec /\ now - first.t >= ExtensionWindow)
                          => ExecExt(i, key)]_vars

\* an extension batch has just executed a full window after the executed
\* batch before it, its extensions ran, and the latest pause-gate check of
\* some pair was a no-op
C10_Witness ==
    /\ inv.kind = "ext"
    /\ inv.has_prev /\ inv.prev_exec
    /\ inv.gap >= ExtensionWindow
    /\ ~inv.skipped
    /\ inv.ran # <<>>
    /\ \E key \in ThrottleKeys("gate") :
          prev["gate"][key].seen /\ ~prev["gate"][key].exec

\* the lifecycle of a call, each step named by what the call does next
Lifecycle ==
    <<"idle", "gate1", "before", "gate2", "ext_before", "execute",
      "gate3", "ext_after", "after", "gate4", "record", "done">>

RankOf ==
    [pc \in {Lifecycle[k] : k \in 1..Len(Lifecycle)} |->
        CHOOSE k \in 1..Len(Lifecycle) : Lifecycle[k] = pc]

Rank(pc) == RankOf[pc]

\* the pair of the batch call i is about to invoke is inside its window
ExtThrottledNow(i) ==
    LET key == ThrottleKey(calls[i].agent, PointAt(calls[i].pc)) IN
    /\ key \in DOMAIN extension_throttle
    /\ now - extension_throttle[key] < ExtensionWindow

\* C11: a throttled extension-point invocation skips the whole batch for that
\* call: no extension is instantiated or executed, the extension cache is not
\* consulted, and the call goes on with its next lifecycle step.  The batch
\* is not queued: a call never comes back to a step it has left, and the
\* extension cache is consulted and extensions are run only in the step of a
\* call that is at that extension point and is not throttled.
C11_SkipNotQueue ==
    [][/\ \A i \in CallIds :
             /\ (ExtStep(i) /\ ExtThrottledNow(i)) => NoOpExt(i)
             /\ Rank(calls'[i].pc) >= Rank(calls[i].pc)
             /\ ExtStep(i) => Rank(calls'[i].pc) > Rank(calls[i].pc)
       /\ (\/ stats'["ext"] # stats["ext"]
           \/ cache'["ext"] # cache["ext"]
           \/ (inv' # inv /\ inv'.ran # <<>>))
             => \E j \in CallIds : ExtStep(j) /\ ~ExtThrottledNow(j)]_vars

\* a call whose after-batch was skipped inside the window has gone on to its
\* after-hook, having invoked both extension points
C11_Witness ==
    /\ inv.kind = "ext"
    /\ inv.skipped
    /\ inv.has_prev /\ inv.gap < ExtensionWindow
    /\ \E i \in CallIds : calls[i].pc = "after" /\ calls[i].extension_calls = 2

\* call i takes a step of its own
CallStep(i) == calls'[i] # calls[i]

\* call i runs its before-hook in this step and the validation fails
ValidationFails(i) ==
    calls[i].pc = "before" /\ calls[i].cls \in SyncExecute /\ CallStep(i)

\* C12: when the before-hook validation fails the call is aborted before any
\* extension runs: the call has invoked no extension point, the failing step
\* touches neither the extension cache nor the extension throttle, an invalid
\* tool never reaches an extension point, its body or its after-hook, and no
\* step of the call follows the abort.
C12_ValidationAborts ==
    [][\A i \in CallIds :
          /\ ValidationFails(i) =>
                /\ calls'[i].pc = "done"
                /\ calls[i].extension_calls = 0
                /\ cache'["ext"] = cache["ext"]
                /\ stats'["ext"] = stats["ext"]
                /\ extension_throttle' = extension_throttle
                /\ inv' = inv
          /\ calls[i].cls \in SyncExecute => calls[i].pc \in {"gate1", "before"}
          /\ calls[i].pc \in {"gate1", "before"} => calls[i].extension_calls = 0
          /\ calls[i].pc = "done" => ~CallStep(i)]_vars

\* a call has been aborted by its validation and the extension cache has
\* never been consulted
C12_Witness ==
    /\ \E i \in CallIds : calls[i].pc = "done" /\ calls[i].error = "ValueError"
    /\ Gets("ext") = 0
    /\ inv.kind = "gate"

\* C13: a call whose before-hook validation fails is recorded in the metrics
\* log as a failed call: the log grows by one record for it.
C13_ValidationFailureRecorded ==
    [][\A i \in CallIds :
          ValidationFails(i) => Len(metrics') = Len(metrics) + 1]_vars

\* what the caller of execute_tool gets from a finished call
CallerSees(frame) == [raised |-> frame.outcome = "raised", ret |-> frame.ret]

\* C14: a before-hook validation failure reaches the caller of execute_tool
\* as a hard error, and what the caller gets differs from what it gets for a
\* tool that was not found and for a tool body that raised.
C14_ValidationFailureSurfaced ==
    \A i \in CallIds :
        (calls[i].pc = "done" /\ calls[i].error = "ValueError") =>
            /\ CallerSees(calls[i]).raised
            /\ \A j \in CallIds :
                  (/\ calls[j].pc = "done"
                   /\ \/ calls[j].outcome = "not_found"
                      \/ calls[j].error = "Exception")
                     => CallerSees(calls[j]) # CallerSees(calls[i])

\* call i starts in this step, for a name that resolves to no class
StartsUnresolvable(i) ==
    /\ calls[i].pc = "idle"
    /\ CallStep(i)
    /\ LoadToolClass(calls'[i].tool, Profile(calls'[i].agent)) = None

\* C15: execute_tool called with a name that resolves to no class returns
\* None without raising, counts one miss in the tool cache (one resolver
\* consultation: no load, no entry, no retry) and does nothing else: no
\* instantiation, pause-gate check, hook or extension call, and no later step.
C15_NotFound ==
    [][\A i \in CallIds :
          /\ StartsUnresolvable(i) =>
                /\ calls'[i].pc = "done"
                /\ calls'[i].outcome = "not_found"
                /\ CallerSees(calls'[i]) = [raised |-> FALSE, ret |-> None]
                /\ stats'["tool"] = [stats["tool"] EXCEPT !.misses = @ + 1]
                /\ cache'["tool"] = cache["tool"]
                /\ calls'[i].cls = None
                /\ UNCHANGED <<intervention_throttle, extension_throttle, inv, prev,
                               metrics>>
                /\ cache'["ext"] = cache["ext"]
                /\ stats'["ext"] = stats["ext"]
          /\ calls[i].pc = "done" => ~CallStep(i)]_vars

\* a call for an unknown name has returned None and the tool cache has
\* counted misses but no load
C15_Witness ==
    /\ \E i \in CallIds :
          /\ calls[i].pc = "done"
          /\ calls[i].outcome = "not_found"
          /\ calls[i].ret = None
    /\ stats["tool"].misses > 0
    /\ stats["tool"].loads = 0

\* call i runs its tool body in this step
BodyStep(i) == calls[i].pc = "execute" /\ CallStep(i)

\* C16: an exception raised by the tool body is caught inside execute_tool:
\* the body step ends either with the response, the call going on, or with
\* the call finished and None returned to the caller; nothing is raised to
\* the caller.
C16_BodyExceptionCaught ==
    [][\A i \in CallIds :
          BodyStep(i) =>
             \/ /\ Advanced(i)
                /\ calls'[i].ret = "response"
             \/ /\ calls'[i].pc = "done"
                /\ calls'[i].error = "Exception"
                /\ CallerSees(calls'[i]) = [raised |-> FALSE, ret |-> None]]_vars

\* a tool body has raised and its call has returned None
C16_Witness ==
    \E i \in CallIds :
        /\ calls[i].pc = "done"
        /\ calls[i].error = "Exception"
        /\ calls[i].outcome = "failed"
        /\ calls[i].ret = None

\* C17: the failure of one extension is isolated: a batch that is not
\* throttled attempts every extension of the point, in the order the resolver
\* lists them, whichever of them fail, and the call goes on with its next
\* lifecycle step.
C17_ExtensionFailureIsolated ==
    [][\A i \in CallIds :
          (ExtStep(i) /\ ~ExtThrottledNow(i)) =>
             /\ Attempted(inv'.ran)
                   = LoadExtensions(PointAt(calls[i].pc), Profile(calls[i].agent))
             /\ Advanced(i)]_vars

\* the first extension of a batch of two failed, the second was attempted
\* and the call is at its tool body
C17_Witness ==
    /\ inv.kind = "ext"
    /\ Len(inv.ran) = 2
    /\ inv.ran[1].failed
    /\ ~inv.ran[2].failed
    /\ \E i \in CallIds : calls[i].pc = "execute"

\* the terminal states of a call, and the one a finished frame is in
TerminalStates == {"NotFound", "ValidationFailed", "Failed", "Completed"}

InTerminal(frame, state) ==
    CASE state = "NotFound"         -> frame.outcome = "not_found"
      [] state = "ValidationFailed" -> frame.outcome = "failed" /\ frame.error = "ValueError"
      [] state = "Failed"           -> frame.outcome = "failed" /\ frame.error = "Exception"
      [] state = "Completed"        -> frame.outcome = "completed"

\* C18: within one call the lifecycle steps happen strictly in the order
\* resolve and instantiate, before-hook, before-extensions, tool body,
\* after-extensions, after-hook, metrics append (a pause-gate check after
\* the instantiation and after each hook and the body): every step of a call
\* takes it to the next step of that order, keeps it waiting at a gate, or
\* ends it; a record is appended only by the last step of a call that
\* completes; a finished call is in exactly one terminal state, the one of
\* the step that ended it, and takes no further step.
C18_LifecycleOrder ==
    [][/\ \A i \in CallIds :
             /\ CallStep(i) =>
                   /\ calls[i].pc # "done"
                   /\ \/ Rank(calls'[i].pc) = Rank(calls[i].pc) + 1
                      \/ calls'[i].pc = "done"
                      \/ /\ calls'[i].pc = calls[i].pc
                         /\ calls[i].pc \in Gates
                         /\ calls'[i].waiting
                   /\ calls'[i].pc = "done" =>
                         /\ calls[i].pc \in {"idle", "before", "execute", "record"}
                         /\ calls[i].pc = "idle" => InTerminal(calls'[i], "NotFound")
                         /\ calls[i].pc = "before"
                               => InTerminal(calls'[i], "ValidationFailed")
                         /\ calls[i].pc = "execute" => InTerminal(calls'[i], "Failed")
                         /\ calls[i].pc = "record" => InTerminal(calls'[i], "Completed")
             /\ calls[i].pc = "done" =>
                   Cardinality({s \in TerminalStates : InTerminal(calls[i], s)}) = 1
       /\ Len(metrics') > Len(metrics) =>
             /\ metrics = SubSeq(metrics', 1, Len(metrics))
             /\ Len(metrics') = Len(metrics) + 1
             /\ \E i \in CallIds : calls[i].pc = "record" /\ CallStep(i)]_vars

\* one call has gone through the whole lifecycle and is recorded, another
\* ended in a different terminal state
C18_Witness ==
    /\ Len(metrics) > 0
    /\ \E i, j \in CallIds :
          /\ calls[i].pc = "done" /\ InTerminal(calls[i], "Completed")
          /\ calls[j].pc = "done" /\ ~InTerminal(calls[j], "Completed")

\* C19: the cache_hit flag of every recorded ToolExecutionMetrics is true
\* exactly when the tool cache served the class of that call as a hit, and
\* false when the class came from a miss followed by a load.
C19_CacheHitFlag ==
    [][\A i \in CallIds :
          (calls[i].pc = "record" /\ CallStep(i)) =>
              metrics'[Len(metrics')].cache_hit = calls[i].served_hit]_vars

----------------------------------------------------------------------------
(* Properties of the cache lock *)

\* coroutine p is between the entry and the exit of "async with" of cache c
InCritical(p, c) == procs[p].c = c /\ procs[p].pc \in InsideLock

\* at most one coroutine is inside the critical section of a cache, and it
\* is the holder of the lock
MutualExclusion ==
    \A c \in Caches : \A p \in Procs :
        InCritical(p, c) =>
            /\ lock[c] = p
            /\ \A q \in Procs : InCritical(q, c) => q = p

\* the entry map or the counters of cache c change in this step
MapStep(c) == cache'[c] # cache[c] \/ stats'[c] # stats[c]

\* C20: every cache operation that touches the entry map (get with its
\* insert and eviction, invalidate, clear, cleanup_expired) does so while
\* holding the cache's lock: at most one coroutine is inside the critical
\* section of a cache, the map changes only in a step of the coroutine that
\* holds the lock, and a coroutine inside the critical section finds the map
\* as its own last step left it.
C20_SingleLock ==
    [][ /\ MutualExclusion'
        /\ \A c \in Caches :
              MapStep(c) =>
                  \E p \in Procs :
                      /\ InCritical(p, c)
                      /\ lock[c] = p
                      /\ procs'[p] # procs[p]
        /\ \A c \in Caches : \A p \in Procs :
              InCritical(p, c) /\ procs'[p] = procs[p] => ~MapStep(c)
      ]_vars

\* one coroutine is about to insert into the map while another one, called
\* on the same cache, waits for the lock
C20_Witness ==
    \E p \in Procs : \E q \in Procs \ {p} :
        /\ procs[p].pc = "add"
        /\ lock[procs[p].c] = p
        /\ procs[q].pc = "acquire"
        /\ procs[q].c = procs[p].c
        /\ procs[q].op \in {"invalidate", "clear", "cleanup"}
        /\ cache[procs[p].c] # <<>>

\* the entry was created by a Get for this (profile, name) pair: _add_to_cache
\* records the path built from the pair it was called with
CreatedFor(entry, c, profile, name) == entry.path = EntryPath(c, name, profile)

\* C21: distinct (profile-or-absent, name) pairs occupy distinct slots: a Get
\* answered as a hit is answered from an entry that was created for the same
\* (profile, name) pair, whatever the profile, absent included.
C21_DistinctSlots ==
    [][\A c \in Caches :
          GetStep(c) /\ HitStep(c) =>
              CreatedFor(EntryOf(cache[c], StepKey), c, last'.req[1], last'.req[2])]_vars

\* what one source location yields on its own: the class of the file, the
\* classes of the folder, or nothing when it is missing or fails to load
FromLocation(c, path) ==
    IF c = "tool"
       THEN (LET l == LoadClassesFromFile(path) IN IF l = <<>> THEN None ELSE l[1])
       ELSE (IF path \in DOMAIN ExtFolders /\ ~LoadClassesFromFolder(path).raised
                THEN LoadClassesFromFolder(path).classes
                ELSE <<>>)

ProfileLocation(c, name, profile) ==
    IF c = "tool" THEN ProfileToolPath(profile, name) ELSE ProfileExtPath(profile, name)

SharedLocation(c, name) ==
    IF c = "tool" THEN DefaultToolPath(name) ELSE DefaultExtPath(name)

\* C22: the resolver applies "profile overrides shared default": with a
\* profile given and a class found in the profile-scoped location, that class
\* is returned whatever the shared location holds; the result is that of the
\* shared location exactly when no profile is given or the profile-scoped
\* location yields nothing (missing or failing to load).
C22_ProfileOverridesShared ==
    [][\A c \in Caches :
          GetStep(c) /\ MissStep(c) =>
              LET profile == last'.req[1]
                  name == last'.req[2]
                  own == FromLocation(c, ProfileLocation(c, name, profile))
              IN  IF profile # None /\ Found(c, own)
                     THEN last'.ret = own
                     ELSE last'.ret = FromLocation(c, SharedLocation(c, name))]_vars

\* a Get with a profile has just run the resolver, the profile-scoped
\* location exists but fails to load, and the class of the shared location
\* was returned
C22_Witness ==
    /\ last.op = "get" /\ last.resolver /\ last.req[1] # None
    /\ LET own == FromLocation(last.c, ProfileLocation(last.c, last.req[2], last.req[1]))
           shared == FromLocation(last.c, SharedLocation(last.c, last.req[2]))
       IN  /\ ProfileLocation(last.c, last.req[2], last.req[1])
                    \in (DOMAIN ToolFiles \cup DOMAIN ExtFolders)
           /\ ~Found(last.c, own) /\ Found(last.c, shared) /\ last.ret = shared

\* a step of clear_metrics: the log and both throttle maps are emptied and no
\* call moves
ResetStep ==
    /\ metrics' = <<>>
    /\ DOMAIN intervention_throttle' = {}
    /\ DOMAIN extension_throttle' = {}
    /\ calls' = calls

\* C23: the metrics log is append-only: apart from an explicit reset, a step
\* leaves the log as it is or adds one record at its end, so the length
\* never decreases and a record in the log is never modified, whatever the
\* other call does.
C23_AppendOnly ==
    [][ \/ ResetStep
        \/ metrics' = metrics
        \/ /\ Len(metrics') = Len(metrics) + 1
           /\ SubSeq(metrics', 1, Len(metrics)) = metrics
      ]_vars

\* a second record has been appended behind the first one
C23_Witness == Len(metrics) = 2 /\ \A i \in CallIds : calls[i].outcome = "completed"

\* a step of the executor that is no step of a call, of the clock or of the
\* pause flag: a call of clear_metrics
ResetCall == calls' = calls /\ now' = now /\ paused' = paused

\* C24: clear_metrics empties the metrics log and both throttle maps, so
\* that the next pause-gate check and the next extension batch of any
\* (agent, key) pair is not throttled, and leaves the entries and the
\* counters of both caches unchanged.
C24_ResetClearsThrottle ==
    [][ResetCall =>
          /\ metrics' = <<>>
          /\ DOMAIN intervention_throttle' = {}
          /\ DOMAIN extension_throttle' = {}
          /\ \A key \in ThrottleKeys("gate") :
                ~Throttled(intervention_throttle', key, now', InterventionWindow)
          /\ \A key \in ThrottleKeys("ext") :
                ~Throttled(extension_throttle', key, now', ExtensionWindow)
          /\ cache' = cache
          /\ stats' = stats
          /\ max_size' = max_size]_vars

\* after a completed call the log was reset, and the first pause-gate check
\* of a later call of the same tool has executed although no time has passed
\* since the checks of the completed call
C24_Witness ==
    \E i \in CallIds : \E j \in CallIds \ {i} :
        /\ calls[i].outcome = "completed"
        /\ calls[j].pc = "before"
        /\ calls[j].tool = calls[i].tool
        /\ metrics = <<>>
        /\ inv.kind = "gate" /\ ~inv.skipped
        /\ now = 0
        /\ cache["tool"] # <<>>
        /\ Gets("ext") > 0

\* call i sits in the poll loop of a pause-gate check
InPauseLoop(i) == calls[i].pc \in Gates /\ calls[i].waiting

\* C25: a pause-gate check that is not throttled does not let the call
\* advance while the pause flag of the context is set: the call enters the
\* poll loop at that checkpoint, stays there as long as the flag remains set,
\* however much time passes, and leaves it only in a step that finds the
\* flag clear.
C25_PauseGateHolds ==
    [][\A i \in CallIds :
          /\ ( /\ GateStep(i)
               /\ paused
               /\ ~Throttled(intervention_throttle,
                             ThrottleKey(calls[i].agent, calls[i].tool), now,
                             InterventionWindow) )
                => /\ calls'[i].waiting
                   /\ calls'[i].pc = calls[i].pc
          /\ InPauseLoop(i) /\ paused => calls'[i] = calls[i]
          /\ InPauseLoop(i) /\ calls'[i] # calls[i]
                => /\ ~paused
                   /\ Advanced(i)]_vars

\* a call is held in the poll loop with the flag set, a full throttle window
\* after the check that put it there
C25_Witness ==
    \E i \in CallIds :
        LET key == ThrottleKey(calls[i].agent, calls[i].tool) IN
        /\ InPauseLoop(i)
        /\ paused
        /\ key \in DOMAIN intervention_throttle
        /\ now - intervention_throttle[key] >= InterventionWindow

\* C26: on an empty metrics log get_performance_stats returns the "no data"
\* result, evaluates no division and does not raise.
C26_NoDataOnEmptyLog ==
    metrics = <<>> =>
        LET r == GetPerformanceStats(metrics) IN
        /\ r.message = "No metrics available"
        /\ r.divisions = 0
        /\ ~r.raised

\* the log is empty although calls have run: one failed and left no record,
\* or the log was reset after a completed call
C26_Witness ==
    /\ metrics = <<>>
    /\ \E i \in CallIds : calls[i].outcome \in {"failed", "completed"}

\* C27: under fair scheduling, with tool and extension bodies that return,
\* if the pause flag is eventually cleared and stays clear, every call of
\* execute_tool that was started reaches a terminal state: from some point
\* on no call is in flight (a call never returns to idle and never leaves
\* its terminal state), so a call waiting in the poll loop of a pause gate
\* has resumed.
C27_Termination ==
    (<>[](~paused)) => <>[](\A i \in CallIds : calls[i].pc \in {"idle", "done"})

\* one call sits in the poll loop of a pause gate with the flag already
\* cleared, the other one has reached a terminal state
C27_Witness ==
    \E i \in CallIds : \E j \in CallIds \ {i} :
        /\ InPauseLoop(i)
        /\ ~paused
        /\ calls[j].pc = "done"

\* a step that is the operation op on cache c: every step but a tick of the
\* clock is an operation, which last then describes
OpStep(c, op) == last'.op = op /\ last'.c = c /\ now' = now

\* the keys that leave cache c in this step
Removed(c) == KeysOf(cache[c]) \ KeysOf(cache'[c])

\* the entries of cache c that stay are left as they were, in their order
OthersUntouched(c) ==
    cache'[c] = SelectSeq(cache[c], LAMBDA e : e.key \in KeysOf(cache'[c]))

\* C28: cleanup_expired removes exactly the entries whose age, sweep time
\* minus last_accessed, exceeds the TTL, adds one to the evictions counter per
\* removed entry and leaves every other entry and counter unchanged; a Get
\* never sweeps: besides the entry of the requested key it removes at most
\* one entry, the LRU victim.
C28_SweepOnlyOnCleanup ==
    [][\A c \in Caches :
          /\ OpStep(c, "cleanup") =>
                /\ Removed(c) = { k \in KeysOf(cache[c]) :
                                    now - EntryOf(cache[c], k).last_accessed > Ttl }
                /\ OthersUntouched(c)
                /\ stats'[c] = [stats[c] EXCEPT
                                  !.evictions = @ + Cardinality(Removed(c))]
          /\ GetStep(c) =>
                /\ Cardinality(Removed(c) \ {StepKey}) <= 1
                /\ Removed(c) \ {StepKey} \subseteq {last'.victim}
                /\ StepKey \in Removed(c) => Stale(cache[c], StepKey, now)]_vars

\* a sweep has just removed an entry and kept one whose age is exactly the
\* TTL
C28_Witness ==
    \E c \in Caches :
        /\ last.c = c /\ last.op = "cleanup" /\ last.removed
        /\ \E k \in KeysOf(cache[c]) : now - EntryOf(cache[c], k).last_accessed = Ttl

CounterNames == {"hits", "misses", "evictions", "loads"}

\* C29: invalidate removes the entry of its key, if present, and no other;
\* clear removes every entry; neither changes another entry or any of the
\* counters hits, misses, evictions and loads; and no operation on a cache
\* ever decreases one of these counters.
C29_RemovalFrame ==
    [][\A c \in Caches :
          /\ OpStep(c, "invalidate") =>
                /\ StepKey \notin KeysOf(cache'[c])
                /\ Removed(c) = KeysOf(cache[c]) \cap {StepKey}
                /\ OthersUntouched(c)
                /\ stats'[c] = stats[c]
          /\ OpStep(c, "clear") =>
                /\ cache'[c] = <<>>
                /\ stats'[c] = stats[c]
          /\ \A n \in CounterNames : stats'[c][n] >= stats[c][n]]_vars

\* an invalidation has just removed one entry and left another one in the
\* cache, after Gets that hit and missed
C29_Witness ==
    \E c \in Caches :
        /\ last.c = c /\ last.op = "invalidate" /\ last.removed
        /\ Len(cache[c]) = 1
        /\ stats[c].hits > 0 /\ stats[c].loads >= 2

\* C30: a cache hit refreshes the hit entry and nothing else: the entry's
\* last_accessed becomes the current time and its access_count grows by one,
\* the hits counter grows by one; the cached class (which is returned), the
\* other fields of the entry, every other entry, the set of keys and the
\* misses, evictions and loads counters stay as they were.
C30_HitRefreshesOnlyEntry ==
    [][\A c \in Caches :
          GetStep(c) /\ HitStep(c) =>
              /\ Len(cache'[c]) = Len(cache[c])
              /\ \A j \in 1..Len(cache[c]) :
                    IF cache[c][j].key = StepKey
                       THEN /\ cache'[c][j].last_accessed = now
                            /\ cache'[c][j].access_count = cache[c][j].access_count + 1
                            /\ cache'[c][j].key = cache[c][j].key
                            /\ cache'[c][j].cls = cache[c][j].cls
                            /\ cache'[c][j].path = cache[c][j].path
                            /\ cache'[c][j].mtime = cache[c][j].mtime
                            /\ last'.ret = cache[c][j].cls
                       ELSE cache'[c][j] = cache[c][j]
              /\ stats'[c].hits = stats[c].hits + 1
              /\ stats'[c].misses = stats[c].misses
              /\ stats'[c].evictions = stats[c].evictions
              /\ stats'[c].loads = stats[c].loads]_vars

\* a hit has just refreshed one of two entries, some time after its load
C30_Witness ==
    \E c \in Caches :
        /\ last.c = c /\ last.op = "get" /\ last.hit
        /\ Len(cache[c]) = 2
        /\ EntryOf(cache[c], LastKey).last_accessed = now
        /\ EntryOf(cache[c], LastKey).access_count >= 2
        /\ now > 0

\* the entries a Get on the key finds once its own stale entry is dropped
PresentAt(entries, key, t) ==
    IF Stale(entries, key, t) THEN Without(entries, key) ELSE entries

\* C31: there is no grace period for a new entry: when a Get inserts into a
\* full cache and the entry inserted by the most recent miss+load has the
\* smallest last_accessed of all, that entry is the victim of the eviction;
\* a state where this has happened is reachable.
C31_NoGracePeriod ==
    [][\A c \in Caches :
          LET present == PresentAt(cache[c], StepKey, now)
              n == Len(present)
          IN  ( /\ GetStep(c) /\ MissStep(c)
                /\ last'.victim # None
                /\ n >= 2
                /\ \A j \in 1..(n - 1) :
                      present[n].last_accessed < present[j].last_accessed )
                => /\ last'.victim = present[n].key
                   /\ present[n].key \notin KeysOf(cache'[c])]_vars

\* a Get has just evicted, from a cache of two entries, the entry that the
\* most recent miss+load before it had inserted
C31_Witness ==
    \E c \in Caches :
        /\ last.c = c /\ last.op = "get" /\ last.victim # None
        /\ last.newest
        /\ max_size[c] = 2

\* C32 as stated: when the pause flag is set before a call begins and is not
\* cleared, the tool body of that call is not executed while the flag
\* remains set, whatever the other calls do.
C32_PausedBodyNeverRuns ==
    [][\A i \in CallIds : BodyStep(i) => ~held[i]]_vars

\* C32 amended: when the pause flag is set before a call begins and is not
\* cleared, a pause-gate check of that call that the throttle does not skip
\* stops the call at its checkpoint, where it stays while the flag remains
\* set; the call passes a checkpoint before the body only by a skipped check,
\* so the body runs with the flag set only if both checks before it were
\* skipped.
C32_PausedBodyOnlyPastSkippedGates ==
    [][\A i \in CallIds :
          /\ (held[i] /\ GateStep(i) /\ calls[i].pc \in {"gate1", "gate2"})
                => IF inv'.skipped
                      THEN Advanced(i)
                      ELSE calls'[i].waiting /\ calls'[i].pc = calls[i].pc
          /\ (held[i] /\ InPauseLoop(i)) => calls'[i] = calls[i]]_vars

\* the body of a call has run although the flag was set before the call
\* began and has not been cleared since
C32_Witness ==
    \E i \in CallIds : held[i] /\ paused /\ calls[i].ret = "response"

----------------------------------------------------------------------------
(* Properties of concurrent Gets *)

\* the number of entries of the map under the key
EntriesUnder(entries, key) ==
    Cardinality({ i \in 1..Len(entries) : entries[i].key = key })

\* coroutine q runs a Get for a key the resolver finds
ResolvableGet(q) ==
    /\ procs[q].op = "get"
    /\ Found(procs[q].c, Resolve(procs[q].c, procs[q].name, procs[q].profile))

\* coroutine q takes the lookup step of its Get
LookupStep(q) == procs[q].pc = "lookup" /\ procs'[q] # procs[q]

\* C33: concurrent Gets for the same resolvable absent key cost one resolver
\* invocation and leave one entry.  While a Get is between its miss and its
\* insertion no other coroutine is inside a Get of that cache; a Get that
\* waited for the lock while another Get for its key missed finds, when it
\* looks the key up (the entry neither removed nor expired since), one entry
\* under the key and is served as a hit: the hit is counted, no miss is, and
\* the coroutine goes on to the return without calling the resolver.
C33_ConcurrentGetsLoadOnce ==
    [][ /\ \A p \in Procs : \A q \in Procs \ {p} :
              procs'[p].pc \in {"load", "add"} =>
                  ~(procs'[q].c = procs'[p].c /\ procs'[q].pc \in InsideLock)
        /\ \A q \in Procs :
              ( /\ joined[q]
                /\ ResolvableGet(q)
                /\ LookupStep(q)
                /\ ~Stale(cache[procs[q].c], KeyOfProc(q), now) )
              => /\ EntriesUnder(cache[procs[q].c], KeyOfProc(q)) = 1
                 /\ cache'[procs[q].c] =
                       HitEffect(cache[procs[q].c], stats[procs[q].c],
                                 KeyOfProc(q), now).entries
                 /\ stats'[procs[q].c] =
                       [stats[procs[q].c] EXCEPT !.hits = @ + 1]
                 /\ procs'[q].pc = "release"
      ]_vars

\* two Gets for the same key were in flight, the first one missed and loaded
\* the class, the second one has just been served the entry as a hit
C33_Witness ==
    \E q \in Procs :
        /\ joined[q]
        /\ ResolvableGet(q)
        /\ procs[q].pc = "release"
        /\ stats[procs[q].c].misses = 1
        /\ stats[procs[q].c].loads = 1
        /\ stats[procs[q].c].hits = 1

\* execute_tool of call i returns in this step
Returns(i) == calls[i].pc # "done" /\ calls'[i].pc = "done"

\* C34: the number of records in the metrics log since the last reset is the
\* number of calls that reached Completed since then.  Step by step: a reset
\* empties the log; the return of a completed call appends one record, of
\* that call's tool; the return of a call that was not found, failed its
\* validation or failed in its body leaves the log as it is; and the log
\* changes in no other step.
C34_OneRecordPerCompletedCall ==
    [][ /\ ResetCall => metrics' = <<>>
        /\ \A i \in CallIds :
              Returns(i) =>
                  IF calls'[i].outcome = "completed"
                     THEN /\ Len(metrics') = Len(metrics) + 1
                          /\ SubSeq(metrics', 1, Len(metrics)) = metrics
                          /\ metrics'[Len(metrics')].tool_name = calls[i].tool
                     ELSE /\ calls'[i].outcome \in {"not_found", "failed"}
                          /\ metrics' = metrics
        /\ (metrics' # metrics /\ ~ResetCall) =>
              \E i \in CallIds : Returns(i) /\ calls'[i].outcome = "completed"
      ]_vars

\* since the last reset one call has completed and another one has failed
\* its validation: the log holds the record of the completed call alone
C34_Witness ==
    \E i \in CallIds : \E j \in CallIds \ {i} :
        /\ calls[i].outcome = "completed"
        /\ calls[j].outcome = "failed"
        /\ calls[j].error = "ValueError"
        /\ Len(metrics) = 1
        /\ metrics[1].tool_name = calls[i].tool

\* call i leaves the pause loop in this step
LeavesPause(i) == calls[i].waiting /\ ~calls'[i].waiting

\* C35: in every recorded ExecutionMetrics the intervention call count is the
\* number of pause-gate checks the call actually performed and the extension
\* call count is the number of batches it actually ran.  Step by step: both
\* counters of a call are zero when its first check begins; a check or a
\* batch that is skipped by the throttle leaves the counter as it is; one
\* that is performed adds one to it, by the time the call leaves the
\* checkpoint; and the record appended at the return carries the counters of
\* the call.
C35_CountsPerformedOnly ==
    [][\A i \in CallIds :
          /\ (calls[i].pc = "idle" /\ calls'[i].pc = "gate1") =>
                /\ calls'[i].intervention_calls = 0
                /\ calls'[i].extension_calls = 0
          /\ (GateStep(i) /\ inv'.skipped) =>
                calls'[i].intervention_calls = calls[i].intervention_calls
          /\ (GateStep(i) /\ ~inv'.skipped /\ Advanced(i)) =>
                calls'[i].intervention_calls = calls[i].intervention_calls + 1
          /\ LeavesPause(i) =>
                calls'[i].intervention_calls = calls[i].intervention_calls + 1
          /\ (ExtStep(i) /\ inv'.skipped) =>
                calls'[i].extension_calls = calls[i].extension_calls
          /\ (ExtStep(i) /\ ~inv'.skipped) =>
                calls'[i].extension_calls = calls[i].extension_calls + 1
          /\ (Returns(i) /\ calls'[i].outcome = "completed") =>
                /\ metrics'[Len(metrics')].intervention_calls
                      = calls[i].intervention_calls
                /\ metrics'[Len(metrics')].extension_calls
                      = calls[i].extension_calls]_vars

\* C36: a throttled (skipped) pause-gate check or extension invocation leaves
\* the throttle maps unchanged; a performed one stamps its pair with the
\* current time and changes nothing else in its map; apart from a reset no
\* other step changes the maps.  The stored timestamp of a pair is thus the
\* time of its last performed invocation, and an invocation that comes at
\* least the window after the stored timestamp is performed, however many
\* skipped invocations came in between: a steady stream of invocations
\* cannot suppress execution indefinitely.
C36_SkipLeavesStamp ==
    [][ /\ \A i \in CallIds :
              /\ GateStep(i) =>
                    LET key == ThrottleKey(calls[i].agent, calls[i].tool) IN
                    /\ extension_throttle' = extension_throttle
                    /\ intervention_throttle' =
                          IF inv'.skipped
                             THEN intervention_throttle
                             ELSE Stamp(intervention_throttle, key, now)
                    /\ inv'.skipped =>
                          /\ key \in DOMAIN intervention_throttle
                          /\ now - intervention_throttle[key] < InterventionWindow
              /\ ExtStep(i) =>
                    LET key == ThrottleKey(calls[i].agent, PointAt(calls[i].pc)) IN
                    /\ intervention_throttle' = intervention_throttle
                    /\ extension_throttle' =
                          IF inv'.skipped
                             THEN extension_throttle
                             ELSE Stamp(extension_throttle, key, now)
                    /\ inv'.skipped =>
                          /\ key \in DOMAIN extension_throttle
                          /\ now - extension_throttle[key] < ExtensionWindow
        /\ (\/ intervention_throttle' # intervention_throttle
            \/ extension_throttle' # extension_throttle)
              => \/ ResetCall
                 \/ \E i \in CallIds : (GateStep(i) \/ ExtStep(i)) /\ ~inv'.skipped
      ]_vars

\* a pause-gate check has just been performed although the check before it,
\* for the same pair, was skipped: the skipped check had left the stamp of
\* the performed check before it, and the window has run out since
C36_Witness ==
    /\ inv.kind = "gate"
    /\ inv.has_prev /\ ~inv.prev_exec
    /\ ~inv.skipped
    /\ \E key \in DOMAIN intervention_throttle :
          intervention_throttle[key] = now /\ now >= InterventionWindow

\* C37: the sweep and Get agree on expiry: right after a cleanup_expired run
\* at time t every entry that remains in the cache is one a Get at time t
\* would treat as fresh.
C37_SweepAgreesWithGet ==
    [][\A c \in Caches :
          OpStep(c, "cleanup") =>
              \A k \in KeysOf(cache'[c]) : LookupFresh(cache'[c], k, now)]_vars

\* C38: in every reachable state of a cache the loads counter is at most the
\* misses counter, and the evictions counter plus the current number of
\* entries is at most the loads counter.
C38_CounterBounds ==
    \A c \in Caches :
        /\ stats[c].loads <= stats[c].misses
        /\ stats[c].evictions + Len(cache[c]) <= stats[c].loads

\* a cache of which both bounds have been exercised: a miss that found no
\* class keeps loads below misses, and after a capacity eviction the
\* evictions and the entry left add up to the loads
C38_Witness ==
    \E c \in Caches :
        /\ stats[c].loads >= 2
        /\ stats[c].loads < stats[c].misses
        /\ stats[c].evictions >= 1
        /\ cache[c] # <<>>
        /\ stats[c].evictions + Len(cache[c]) = stats[c].loads

----------------------------------------------------------------------------
(* Properties of the release of the cache lock *)

\* the lock of every cache is free or held by a coroutine that is inside the
\* critical section of that cache: no coroutine that has finished, or that
\* has not entered, holds it
HeldOnlyInside ==
    \A c \in Caches : lock[c] # None => InCritical(lock[c], c)

\* coroutine p waits for the lock of the cache of its operation
WaitsForLock(p) == procs[p].pc = "acquire"

\* coroutine p holds the lock of the cache of its operation
HasLock(p) == procs[p].pc \in InsideLock /\ lock[procs[p].c] = p

\* C39: every cache operation releases the lock when it finishes, also when
\* the resolver fails inside the critical section: the lock is only ever held
\* by a coroutine inside the critical section, and a coroutine that holds it
\* gives it up.  Under fair scheduling every operation that waits for the
\* lock eventually acquires it.
C39_LockReleasedAndAcquired ==
    /\ []HeldOnlyInside
    /\ \A p \in Procs : HasLock(p) ~> (lock["tool"] # p)
    /\ \A p \in Procs : WaitsForLock(p) ~> HasLock(p)

\* a Get that waited for the lock while a Get for the same key missed, and
\* whose resolver found nothing, now holds the lock: the failed Get released
\* it
C39_Witness ==
    \E q \in Procs :
        /\ joined[q]
        /\ procs[q].name = "ghost"
        /\ HasLock(q)
        /\ procs[q].pc = "lookup"
        /\ stats[procs[q].c].misses = 1
        /\ stats[procs[q].c].loads = 0

\* the location the resolver took the result of a load from: the
\* profile-scoped one when a profile is given and that location yields a
\* class, else the shared one
LoadedFrom(c, name, profile) ==
    IF Truthy(profile) /\ Found(c, FromLocation(c, ProfileLocation(c, name, profile)))
       THEN ProfileLocation(c, name, profile)
       ELSE SharedLocation(c, name)

\* C40: the sourcePath recorded in a cache entry is the location from which
\* the cached class was actually loaded: the profile path when the class came
\* from the profile location, the shared path when it came from the fallback.
C40_PathIsSource ==
    [][\A c \in Caches :
          (GetStep(c) /\ MissStep(c) /\ StepKey \in KeysOf(cache'[c])) =>
              EntryOf(cache'[c], StepKey).path
                 = LoadedFrom(c, last'.req[2], last'.req[1])]_vars

====
